---------------------------- MODULE Spec2Model ----------------------------
(***************************************************************************)
(* A model of the twitter scraper service: the in-memory job store and the *)
(* request handlers of main.py, the background discovery run               *)
(* (run_discovery_job), the background tweet-sync run (jobs/tweet_sync.py) *)
(* and the scroll-and-converge collectors of scraper/core.py.              *)
(*                                                                         *)
(* Python values are encoded as follows.  An optional value is a sequence  *)
(* of length at most one: None is << >> and a present value v is << v >>.  *)
(* A dict is a function on its keys, so that a missing key (dict.get) and  *)
(* a key holding None are told apart.  A timestamp is the token "ts".  A   *)
(* username is a positive integer.  A Profile keeps the two fields the     *)
(* orchestrator reads: username and followers_count.                       *)
(***************************************************************************)
EXTENDS Integers, Sequences, FiniteSets, TLC

VARIABLES
    jobs,       \* main.py:38   the process-wide job map, job id -> dict
    run,        \* the locals and the position of each background run
    sessions,   \* per owner: browser sessions created and closed so far
    resp,       \* the outcome of the request handler that ran last
    faults,     \* how many browser operations have failed so far
    attrib,     \* per job, per username: profiles added from its listing
    col,        \* the locals of the collector a request handler called
    world,      \* which follower counts the site's profile pages show
    call        \* a call of parse_count: its argument, then its outcome

vars == <<jobs, run, sessions, resp, faults, attrib, col, world, call>>

-----------------------------------------------------------------------------
(* Bounds of the model. *)

\* job ids that uuid4 may hand out
MaxJobs == 2
\* browser operations that fail in one behaviour
MaxFaults == 2
\* browser operations that fail in one behaviour of a long submission
LongFaults == 1
\* browser operations that fail in one behaviour of concurrent jobs
StoreFaults == 1
\* usernames a short submission lists at most
MaxSeeds == 2
\* the usernames short submissions are made of
SeedNames == {1, 2}
\* posts a tweets request asks for at most
MaxTweets == 2
\* tweet elements a rendered page holds at most
MaxPage == 2
\* the texts of rendered tweets; 0 is the empty text
TweetTexts == {0, 1, 2}
\* the scroll heights a page may report
Heights == {1, 2}
\* the handles a listing cell may link to
MaxHandle == 3
\* the largest max_count of a call of scrape_following on its own
MaxCount == 2
\* the strings of a profile page that hold a number before "posts"
MaxCandidates == 2

(* Program constants. *)

\* main.py:187
target_total == 25
\* main.py:204
target_per_seed == 4
\* main.py:241  discovered_profiles[:25]
result_limit == 25
\* main.py:200  scrape_following(username, max_count=10)
following_max_count == 10
\* core.py:326 and core.py:372
max_scroll_attempts == 10

JobIds == 1..MaxJobs

None == << >>
Some(v) == << v >>

-----------------------------------------------------------------------------
(* dict helpers *)

\* dict.get(key): the value, or None for a missing key
Get(d, k) == IF k \in DOMAIN d THEN d[k] ELSE None

\* d[key] = value
Put(d, k, v) == [x \in (DOMAIN d) \cup {k} |-> IF x = k THEN v ELSE d[x]]

-----------------------------------------------------------------------------
(* The environment a specification runs in: which requests are submitted   *)
(* and what the web site shows.  The handlers and runs below take it as a   *)
(* parameter E; nothing of it is program state.                             *)
(*   jobIds     the job ids uuid4 may return                                *)
(*   lists      the username lists a submission may carry                   *)
(*   sinks      whether a submission carries user_id and callback_url       *)
(*   maxFaults  browser operations that may fail in one behaviour           *)
(*   listLen    the cells a following listing holds                         *)
(*   chunk      the cells a listing page renders per load                   *)

\* follower counts a profile page may show, 0..MaxFollowers
MaxFollowers == 2
\* cells of a following listing, more than following_max_count
ListLen == 11
\* cells a listing page renders per load
PageChunk == 5

\* digits before the point of a count, digits after it, and characters of
\* a text that is no count
MaxWhole == 2
MaxFrac == 2
MaxWord == 3

\* the i-th account u follows, in the order of the listing page
FollowingOf(u, i) == u + i

\* the follower count the profile page of u shows
FollowersOf(u) == (u * world) % (MaxFollowers + 1)

CanFail(E) == faults < E.maxFaults

-----------------------------------------------------------------------------
(* models/data_models.py *)

Profile(u, f) == [username |-> u, followers_count |-> f]

Tweet(t, u, l) == [text |-> t, username |-> u, likes |-> l]

\* the posts a bounded collection over the timeline of u returns: the
\* accounts with an odd name have posted, the others have not
TimelineOf(u) == IF u % 2 = 1 THEN <<Tweet(1, u, 0)>> ELSE << >>

-----------------------------------------------------------------------------
(* scraper/core.py: scrape_profile *)

\* What scrape_profile(username) may return: a Profile whose counts were
\* read off the page, or None when the browser raised (the except clause
\* of scrape_profile turns every exception into None).
scrape_profile(E, u) ==
    {Some(Profile(u, FollowersOf(u)))}
        \cup (IF CanFail(E) THEN {None} ELSE {})

-----------------------------------------------------------------------------
(* scraper/core.py: scrape_following, the connection collector.            *)
(* An href is a sequence of path characters: 0 stands for "/", a positive  *)
(* number for a whole handle; the hrefs of the model hold one handle with  *)
(* slashes around it.  A cell of the listing is a record                   *)
(*   [href |-> an optional href, raises |-> whether reading it raises].    *)

RECURSIVE lstrip(_)
lstrip(s) == IF s # << >> /\ Head(s) = 0 THEN lstrip(Tail(s)) ELSE s

RECURSIVE rstrip(_)
rstrip(s) ==
    IF s # << >> /\ s[Len(s)] = 0 THEN rstrip(SubSeq(s, 1, Len(s) - 1)) ELSE s

\* user_link['href'].strip('/'), as the handle left between the slashes
strip(href) == Head(rstrip(lstrip(href)))

\* the cell the listing page renders for handle h
UserCell(h) == [href |-> Some(<<0, h>>), raises |-> FALSE]

\* One pass of "for cell in user_cells", from the collection
\* acc = [profiles, seen_usernames, skipped]; skipped records that a cell
\* was passed over because parsing it raised.
\* core.py:382-421: the body of the loop for one cell
following_cell(acc, cell) ==
    LET handle == strip(cell.href[1])
    IN IF cell.raises THEN [acc EXCEPT !.skipped = TRUE]
       ELSE IF cell.href = None \/ handle \in acc.seen_usernames
       THEN acc
       ELSE [acc EXCEPT !.profiles = Append(@, Profile(handle, 0)),
                        !.seen_usernames = @ \cup {handle}]

\* a loop over the cells that is not left at max_count
following_cells_unbroken(start, cells, max_count) ==
    LET loop[n \in 0..Len(cells)] ==
            IF n = 0 THEN start
            ELSE CHOOSE after \in
                     {following_cell(acc, cells[n]) : acc \in {loop[n - 1]}} :
                     TRUE
    IN loop[Len(cells)]

\* core.py:378-380: the loop over the first n cells, left at max_count
following_cells(start, cells, max_count) ==
    LET loop[n \in 0..Len(cells)] ==
            IF n = 0 THEN start
            ELSE CHOOSE after \in
                     {IF Len(acc.profiles) >= max_count THEN acc
                      ELSE following_cell(acc, cells[n]) : acc \in {loop[n - 1]}} :
                     TRUE
    IN loop[Len(cells)]

\* a no-growth counter that an unchanged height does not advance
scroll_attempts_stuck(attempts, last_height, new_height) ==
    IF new_height = last_height THEN attempts ELSE 0

\* a no-growth counter that a changed height does not reset
scroll_attempts_unreset(attempts, last_height, new_height) ==
    IF new_height = last_height THEN attempts + 1 ELSE attempts

\* the no-growth counter after a scroll
scroll_attempts_after(attempts, last_height, new_height) ==
    IF new_height = last_height THEN attempts + 1 ELSE 0

\* the locals of scrape_following after driver.get and the first height read
following_start(height) ==
    [profiles |-> << >>, seen_usernames |-> {}, skipped |-> FALSE,
     last_height |-> height, scroll_attempts |-> 0]

\* while len(profiles) < max_count and scroll_attempts < max_scroll_attempts
following_continues(c, max_count) ==
    Len(c.profiles) < max_count /\ c.scroll_attempts < max_scroll_attempts

\* the merge step of one while iteration, on the cells of page_source
following_merge(c, cells, max_count) ==
    LET acc == following_cells(
                   [profiles |-> c.profiles, seen_usernames |-> c.seen_usernames,
                    skipped |-> c.skipped],
                   cells, max_count)
    IN [c EXCEPT !.profiles = acc.profiles,
                 !.seen_usernames = acc.seen_usernames,
                 !.skipped = acc.skipped]

\* the scroll step of one while iteration: scroll, sleep, read the height
following_scroll(c, new_height) ==
    [c EXCEPT !.scroll_attempts =
                  scroll_attempts_after(c.scroll_attempts, c.last_height, new_height),
              !.last_height = new_height]

-----------------------------------------------------------------------------
(* scraper/core.py: scrape_tweets, the post collector.  A rendered tweet   *)
(* element is a record [text, likes, raises]: text 0 is an element without *)
(* a tweetText node (its text is ""), raises tells whether parsing it      *)
(* raises.                                                                 *)

\* a parser that returns a tweet without text for an element it fails on
parse_tweet_element_partial(el, username) ==
    Some(Tweet(IF el.raises THEN 0 ELSE el.text, username, el.likes))

\* core.py:218-312: the Tweet of an element, or None when parsing raised
parse_tweet_element(el, username) ==
    IF el.raises THEN None ELSE Some(Tweet(el.text, username, el.likes))

\* One pass of "for tweet_el in tweet_elements", from the collection
\* acc = [tweets, seen_texts, collided]; collided records that an element
\* was dropped for a text already seen.
\* core.py:336-340: the body of the loop for one element
tweets_element_unseen(acc, tweet_el, username) ==
    LET parsed_tweet == parse_tweet_element(tweet_el, username)
    IN IF parsed_tweet = None THEN acc
       ELSE [acc EXCEPT !.tweets = Append(@, parsed_tweet[1]),
                        !.seen_texts = @ \cup {parsed_tweet[1].text},
                        !.collided = @ \/ parsed_tweet[1].text \in acc.seen_texts]

tweets_element(acc, tweet_el, username) ==
    LET parsed_tweet == parse_tweet_element(tweet_el, username)
    IN IF parsed_tweet = None THEN acc
       ELSE IF parsed_tweet[1].text \in acc.seen_texts
       THEN [acc EXCEPT !.collided = TRUE]
       ELSE [acc EXCEPT !.tweets = Append(@, parsed_tweet[1]),
                        !.seen_texts = @ \cup {parsed_tweet[1].text}]

\* core.py:332-334: the loop over the first n elements, left at max_tweets
tweets_elements(start, elements, username, max_tweets) ==
    LET loop[n \in 0..Len(elements)] ==
            IF n = 0 THEN start
            ELSE CHOOSE after \in
                     {IF Len(acc.tweets) >= max_tweets THEN acc
                      ELSE tweets_element(acc, elements[n], username) :
                          acc \in {loop[n - 1]}} :
                     TRUE
    IN loop[Len(elements)]

\* the locals of scrape_tweets after driver.get and the first height read
tweets_start(username, max_tweets, height) ==
    [pc |-> "loop", username |-> username, max_tweets |-> max_tweets,
     tweets |-> << >>, seen_texts |-> {}, collided |-> FALSE,
     last_height |-> height, scroll_attempts |-> 0]

\* while len(tweets) < max_tweets and scroll_attempts < max_scroll_attempts
tweets_continues(c) ==
    Len(c.tweets) < c.max_tweets /\ c.scroll_attempts < max_scroll_attempts

\* the merge step of one while iteration, on the elements of page_source
tweets_merge(c, elements) ==
    LET acc == tweets_elements(
                   [tweets |-> c.tweets, seen_texts |-> c.seen_texts,
                    collided |-> c.collided],
                   elements, c.username, c.max_tweets)
    IN [c EXCEPT !.tweets = acc.tweets, !.seen_texts = acc.seen_texts,
                 !.collided = acc.collided]

\* a collector whose except clause is missing: the exception leaves it
tweets_except_missing(c) == [c EXCEPT !.pc = "raised"]

\* core.py:356-358: the except clause returns the tweets collected so far
tweets_except(c) == [c EXCEPT !.pc = "return"]

\* the scroll step of one while iteration: scroll, sleep, read the height
tweets_scroll(c, new_height) ==
    [c EXCEPT !.scroll_attempts =
                  scroll_attempts_after(c.scroll_attempts, c.last_height, new_height),
              !.last_height = new_height]

-----------------------------------------------------------------------------
(* main.py: the job store and the submission handlers *)

Timestamp == Some("ts")

FreeIds(E) == E.jobIds \ DOMAIN jobs

\* main.py:270-278
new_discovery_record(id, usernames) ==
    [id |-> id, status |-> "pending",
     progress |-> <<"Job created, starting soon...">>,
     usernames |-> usernames, created_at |-> Timestamp,
     result |-> None, error |-> None]

\* main.py:318-325
new_sync_record(id, usernames) ==
    [id |-> id, status |-> "pending", type |-> "sync_tweets",
     progress |-> <<"Job created, starting soon...">>,
     usernames |-> usernames, created_at |-> Timestamp]

NoRun == [kind |-> "none", pc |-> "none"]

\* the background task add_task schedules for run_discovery_job
discovery_task(usernames, sink) ==
    [kind |-> "discovery", pc |-> "queued", usernames |-> usernames,
     sink |-> sink, idx |-> 1, discovered_profiles |-> << >>,
     seen_usernames |-> {}, c |-> following_start(0), vis |-> 0,
     following |-> << >>, f_idx |-> 1, count |-> 0,
     final_profiles |-> << >>, error |-> None,
     collected |-> {}, payloads |-> << >>]

\* the background task add_task schedules for run_tweet_sync_job
sync_task(usernames) ==
    [kind |-> "sync", pc |-> "queued", usernames |-> usernames, idx |-> 1,
     total_tweets |-> 0, raised |-> FALSE, payloads |-> << >>]

\* a submission handler without the check of line 265
start_discovery_job_unchecked(E) ==
    \E usernames \in E.lists, sink \in E.sinks, job_id \in FreeIds(E) :
        /\ jobs' = Put(jobs, job_id, new_discovery_record(job_id, usernames))
        /\ run' = [run EXCEPT ![job_id] = discovery_task(usernames, sink)]
        /\ attrib' = [attrib EXCEPT ![job_id] =
                          [u \in {usernames[i] : i \in DOMAIN usernames} |-> 0]]
        /\ resp' = [code |-> 200, handler |-> "discover",
                    job_id |-> job_id, status |-> "pending"]
        /\ UNCHANGED <<sessions, faults, col, world, call>>

\* POST /discover
start_discovery_job(E) ==
    \E usernames \in E.lists, sink \in E.sinks :
        IF usernames = << >>
        THEN /\ resp' = [code |-> 400, handler |-> "discover"]
             /\ UNCHANGED <<jobs, run, sessions, faults, attrib, col, world, call>>
        ELSE \E job_id \in FreeIds(E) :
                /\ jobs' = Put(jobs, job_id, new_discovery_record(job_id, usernames))
                /\ run' = [run EXCEPT ![job_id] = discovery_task(usernames, sink)]
                /\ attrib' = [attrib EXCEPT ![job_id] =
                                  [u \in {usernames[i] : i \in DOMAIN usernames} |-> 0]]
                /\ resp' = [code |-> 200, handler |-> "discover",
                            job_id |-> job_id, status |-> "pending"]
                /\ UNCHANGED <<sessions, faults, col, world, call>>

\* POST /sync-tweets
start_tweet_sync_job(E) ==
    \E usernames \in E.lists :
        IF usernames = << >>
        THEN /\ resp' = [code |-> 400, handler |-> "sync-tweets"]
             /\ UNCHANGED <<jobs, run, sessions, faults, attrib, col, world, call>>
        ELSE \E job_id \in FreeIds(E) :
                /\ jobs' = Put(jobs, job_id, new_sync_record(job_id, usernames))
                /\ run' = [run EXCEPT ![job_id] = sync_task(usernames)]
                /\ resp' = [code |-> 200, handler |-> "sync-tweets",
                            job_id |-> job_id, status |-> "pending"]
                /\ UNCHANGED <<sessions, faults, attrib, col, world, call>>

\* GET /jobs/{job_id}
job_status_view(job_id) ==
    IF job_id \notin DOMAIN jobs
    THEN [code |-> 404, handler |-> "jobs"]
    ELSE LET job == jobs[job_id]
         IN [code |-> 200, handler |-> "jobs",
             id |-> job["id"], status |-> job["status"],
             progress |-> job["progress"], created_at |-> job["created_at"],
             started_at |-> Get(job, "started_at"),
             completed_at |-> Get(job, "completed_at"),
             result |-> IF job["status"] = "completed"
                        THEN Get(job, "result") ELSE None,
             error |-> Get(job, "error")]

get_job_status ==
    \E job_id \in JobIds :
        /\ resp' = job_status_view(job_id)
        /\ UNCHANGED <<jobs, run, sessions, faults, attrib, col, world, call>>

\* a store whose records are one shared dict: a write lands in every record
SetJob_shared(job_id, key, value) ==
    jobs' = [k \in DOMAIN jobs |-> Put(jobs[k], key, value)]

\* jobs[job_id][key] = value
SetJob(job_id, key, value) ==
    jobs' = [jobs EXCEPT ![job_id] = Put(@, key, value)]

-----------------------------------------------------------------------------
(* main.py: run_discovery_job, the discovery orchestrator.  Each action is  *)
(* one step of the background run of job j; run[j].pc is its position.      *)

SetRun(j, r) == run' = [run EXCEPT ![j] = r]

InRun(j, kind, pc) == run[j].kind = kind /\ run[j].pc = pc

\* key=lambda x: x.followers_count, reverse=True: whether entry k of the
\* list is placed before entry i; list.sort is stable, so entries with
\* equal keys keep their order
sorts_before_ascending(profiles, k, i) ==
    \/ profiles[k].followers_count < profiles[i].followers_count
    \/ /\ profiles[k].followers_count = profiles[i].followers_count
       /\ k < i

\* a sort that is not stable: entries with equal keys change places
sorts_before_unstable(profiles, k, i) ==
    \/ profiles[k].followers_count > profiles[i].followers_count
    \/ /\ profiles[k].followers_count = profiles[i].followers_count
       /\ k > i

sorts_before(profiles, k, i) ==
    \/ profiles[k].followers_count > profiles[i].followers_count
    \/ /\ profiles[k].followers_count = profiles[i].followers_count
       /\ k < i

\* discovered_profiles.sort(...): entry i moves to the place after the
\* entries that are placed before it
sort_by_followers(profiles) ==
    LET n == Len(profiles)
        place(i) == Cardinality({k \in 1..n : sorts_before(profiles, k, i)}) + 1
    IN [at \in 1..n |-> profiles[CHOOSE i \in 1..n : place(i) = at]]

\* discovered_profiles[:25]
truncate_none(profiles) == profiles

\* a slice that keeps target_per_seed profiles
truncate_per_seed(profiles) ==
    SubSeq(profiles, 1, IF Len(profiles) < target_per_seed
                        THEN Len(profiles) ELSE target_per_seed)

truncate(profiles) ==
    SubSeq(profiles, 1, IF Len(profiles) < result_limit
                        THEN Len(profiles) ELSE result_limit)

\* main.py:240-241
finalize(profiles) == truncate(sort_by_followers(profiles))

\* scraper.scrape_tweets(username, count=10): the keyword the caller passes
\* against the signature scrape_tweets(self, username, max_tweets=20)
scrape_tweets_accepts(keyword) == keyword \in {"username", "max_tweets"}

\* the names bound at module level in main.py (lines 1-58): what a global
\* name in run_discovery_job resolves to, or raises NameError
main_names ==
    {"FastAPI", "HTTPException", "BackgroundTasks", "CORSMiddleware",
     "BaseModel", "List", "Optional", "Dict", "Any", "uvicorn", "os", "uuid",
     "datetime", "TwitterScraper", "TwitterAnalyzer", "Tweet", "Profile",
     "logging", "logger", "app", "jobs", "run_tweet_sync_job"}

\* main.py:156-173: the hand-off of a resolved seed's posts to the sink.
\* collected holds the seeds a post collection ran for, payloads the seeds
\* whose posts were posted; every exception is caught at line 172.
seed_sink_handoff(r, username) ==
    IF ~r.sink THEN r
    ELSE IF ~scrape_tweets_accepts("count") THEN r
    ELSE LET ran == [r EXCEPT !.collected = @ \cup {username}]
         IN IF TimelineOf(username) = << >> \/ "requests" \notin main_names
            THEN ran
            ELSE [ran EXCEPT !.payloads = Append(@, username)]

\* a seed loop that does not add the resolved seed to seen_usernames
seed_resolved_unseen(next, profile) ==
    seed_sink_handoff(
        [next EXCEPT !.discovered_profiles = Append(@, profile)],
        profile.username)

\* main.py:151-153: the seed loop after a profile fetch that succeeded
seed_resolved(next, profile) ==
    seed_sink_handoff(
        [next EXCEPT !.discovered_profiles = Append(@, profile),
                     !.seen_usernames = @ \cup {profile.username}],
        profile.username)

\* a seed loop that lets the failure of a profile fetch leave the run
seed_unresolved_raises(next) ==
    [next EXCEPT !.pc = "fail_status", !.error = Some("profile fetch failed")]

\* main.py:175-178: the seed loop after a profile fetch that failed
seed_unresolved(next) == next

\* main.py:123
discovery_set_running(j) ==
    /\ InRun(j, "discovery", "queued")
    /\ SetJob(j, "status", "running")
    /\ SetRun(j, [run[j] EXCEPT !.pc = "stamp_start"])
    /\ UNCHANGED <<sessions, resp, faults, attrib, col, world, call>>

\* main.py:124
discovery_stamp_start(j) ==
    /\ InRun(j, "discovery", "stamp_start")
    /\ SetJob(j, "started_at", Timestamp)
    /\ SetRun(j, [run[j] EXCEPT !.pc = "new_scraper"])
    /\ UNCHANGED <<sessions, resp, faults, attrib, col, world, call>>

\* main.py:131-133: the browser starts, or its start raises to line 256
discovery_new_scraper(j, E) ==
    /\ InRun(j, "discovery", "new_scraper")
    /\ \/ /\ sessions' = [sessions EXCEPT ![j].created = @ + 1]
          /\ SetRun(j, [run[j] EXCEPT !.pc = IF run[j].usernames = << >>
                                            THEN "phase2" ELSE "phase1"])
          /\ UNCHANGED faults
       \/ /\ CanFail(E)
          /\ faults' = faults + 1
          /\ SetRun(j, [run[j] EXCEPT !.pc = "fail_status",
                                      !.error = Some("browser start failed")])
          /\ UNCHANGED sessions
    /\ UNCHANGED <<jobs, resp, attrib, col, world, call>>

\* main.py:141-178: one iteration of the seed loop
discovery_phase1_seed(j, E) ==
    /\ InRun(j, "discovery", "phase1")
    /\ LET r == run[j]
           n == Len(r.usernames)
           username == r.usernames[r.idx]
           next == IF r.idx = n
                   THEN [r EXCEPT !.pc = "phase2", !.idx = 1]
                   ELSE [r EXCEPT !.idx = r.idx + 1]
       IN IF username \in r.seen_usernames
          THEN /\ SetRun(j, next)
               /\ UNCHANGED <<jobs, faults>>
          ELSE /\ SetJob(j, "progress",
                         <<"Scraping seed profile", r.idx, n, username>>)
               /\ \E profile \in scrape_profile(E, username) :
                     IF profile # None
                     THEN /\ SetRun(j, seed_resolved(next, profile[1]))
                          /\ UNCHANGED faults
                     ELSE /\ SetRun(j, seed_unresolved(next))
                          /\ faults' = faults + 1
    /\ UNCHANGED <<sessions, resp, attrib, col, world, call>>


\* the cells the listing page of u shows once vis of them are rendered
listing_cells(u, vis) == [i \in 1..vis |-> UserCell(FollowingOf(u, i))]

\* what a scroll of the listing page may leave rendered: it loads the next
\* chunk, or nothing new
listing_after_scroll(E, vis) ==
    {vis} \cup (IF vis < E.listLen
                THEN {IF vis + E.chunk < E.listLen THEN vis + E.chunk ELSE E.listLen}
                ELSE {})

\* a run that passes over every other seed
discovery_next_seed_skipping(r) ==
    [r EXCEPT !.pc = "phase2", !.idx = r.idx + 2, !.following = << >>,
              !.f_idx = 1, !.count = 0]

\* the run at the head of the expansion loop for the next seed; the locals
\* of the iteration left behind are dead and read as they were initially
discovery_next_seed(r) ==
    [r EXCEPT !.pc = "phase2", !.idx = r.idx + 1, !.following = << >>,
              !.f_idx = 1, !.count = 0]

\* main.py:206 onwards starts here for the listing scrape_following returned
\* (its own locals are gone); an empty listing ends the seed's iteration
discovery_with_following(r, following) ==
    LET back == [r EXCEPT !.c = following_start(0), !.vis = 0]
    IN IF following = << >>
       THEN discovery_next_seed(back)
       ELSE [back EXCEPT !.pc = "stubs", !.following = following,
                         !.f_idx = 1, !.count = 0]

\* main.py:190-200 and core.py:360-372: the head of the expansion loop, then
\* the start of scrape_following(username, max_count=10) for the next seed
discovery_phase2_seed(j, E) ==
    /\ InRun(j, "discovery", "phase2")
    /\ LET r == run[j]
           n == Len(r.usernames)
       IN IF r.idx > n \/ Len(r.discovered_profiles) >= target_total
          THEN /\ SetRun(j, [r EXCEPT !.pc = "closing"])
               /\ UNCHANGED <<jobs, faults>>
          ELSE /\ SetJob(j, "progress",
                         <<"Discovering network", r.idx, n, r.usernames[r.idx]>>)
               /\ \/ /\ \E vis \in {IF E.chunk < E.listLen THEN E.chunk ELSE E.listLen} :
                          SetRun(j, [r EXCEPT !.pc = "following", !.vis = vis,
                                              !.c = following_start(vis)])
                     /\ UNCHANGED faults
                  \/ \* driver.get raises: scrape_following returns []
                     /\ CanFail(E)
                     /\ faults' = faults + 1
                     /\ SetRun(j, discovery_with_following(r, << >>))
    /\ UNCHANGED <<sessions, resp, attrib, col, world, call>>

\* core.py:374-439: one iteration of the while loop of scrape_following,
\* and its return when the loop ends or the browser raises
discovery_following_iteration(j, E) ==
    /\ InRun(j, "discovery", "following")
    /\ \E merged \in {following_merge(
                          run[j].c,
                          listing_cells(run[j].usernames[run[j].idx], run[j].vis),
                          following_max_count)} :
       LET r == run[j]
       IN \/ /\ \E vis \in listing_after_scroll(E, r.vis) :
                \E c \in {following_scroll(merged, vis)} :
                  IF following_continues(c, following_max_count)
                  THEN SetRun(j, [r EXCEPT !.c = c, !.vis = vis])
                  ELSE SetRun(j, discovery_with_following(
                                     [r EXCEPT !.c = c, !.vis = vis],
                                     c.profiles))
             /\ UNCHANGED faults
          \/ \* page_source raises before the merge, or the scroll or the
             \* height read raises after it
             /\ CanFail(E)
             /\ faults' = faults + 1
             /\ \E c \in {r.c, merged} :
                  SetRun(j, discovery_with_following([r EXCEPT !.c = c],
                                                     c.profiles))
    /\ UNCHANGED <<jobs, sessions, resp, attrib, col, world, call>>

\* main.py:207: whether the stub p of the listing is fetched in full
stub_is_new_uncapped(r, p) == p.username \notin r.seen_usernames

stub_is_new(r, p) ==
    /\ p.username \notin r.seen_usernames
    /\ Len(r.discovered_profiles) < target_total

\* a stub loop that is left only at the end of the listing
stub_advance_unbroken(q, break) ==
    IF q.f_idx = Len(q.following)
    THEN discovery_next_seed(q)
    ELSE [q EXCEPT !.f_idx = q.f_idx + 1]

\* the next stub, or the next seed after the last stub or a break
stub_advance(q, break) ==
    IF break \/ q.f_idx = Len(q.following)
    THEN discovery_next_seed(q)
    ELSE [q EXCEPT !.f_idx = q.f_idx + 1]

\* a stub loop that gives up the listing when a promotion fetch fails
stub_unpromoted_breaks(r) == stub_advance(r, TRUE)

\* main.py:219-225: the stub loop after a promotion fetch that failed
stub_unpromoted(r) == stub_advance(r, r.count >= target_per_seed)

\* main.py:206-225: one iteration of the loop over the listing
discovery_stub(j, E) ==
    /\ InRun(j, "discovery", "stubs")
    /\ LET r == run[j]
           n == Len(r.usernames)
           seed == r.usernames[r.idx]
           p == r.following[r.f_idx]
           advance(q, break) == stub_advance(q, break)
       IN IF stub_is_new(r, p)
          THEN /\ SetJob(j, "progress",
                         <<"Network", r.idx, n, p.username,
                           Len(r.discovered_profiles), target_total>>)
               /\ \E full_p \in scrape_profile(E, p.username) :
                     IF full_p # None
                     THEN /\ SetRun(j, advance(
                                 [r EXCEPT
                                    !.discovered_profiles = Append(@, full_p[1]),
                                    !.seen_usernames = @ \cup {full_p[1].username},
                                    !.count = r.count + 1],
                                 r.count + 1 >= target_per_seed))
                          /\ attrib' = [attrib EXCEPT ![j][seed] = @ + 1]
                          /\ UNCHANGED faults
                     ELSE /\ SetRun(j, stub_unpromoted(r))
                          /\ faults' = faults + 1
                          /\ UNCHANGED attrib
          ELSE /\ SetRun(j, advance(r, FALSE))
               /\ UNCHANGED <<jobs, faults, attrib>>
    /\ UNCHANGED <<sessions, resp, col, world, call>>


\* a run whose finally clause does not close the browser
discovery_close_missing(j, E) ==
    /\ InRun(j, "discovery", "closing")
    /\ SetRun(j, [run[j] EXCEPT
           !.pc = "set_completed",
           !.final_profiles = finalize(run[j].discovered_profiles)])
    /\ UNCHANGED <<jobs, sessions, resp, faults, attrib, col, world, call>>

\* main.py:233-249: the finally clause closes the browser; when close
\* raises, the exception leaves the run by line 256
discovery_close(j, E) ==
    /\ InRun(j, "discovery", "closing")
    /\ sessions' = [sessions EXCEPT ![j].closed = @ + 1]
    /\ \/ /\ SetRun(j, [run[j] EXCEPT
                 !.pc = "set_completed",
                 !.final_profiles = finalize(run[j].discovered_profiles)])
          /\ UNCHANGED faults
       \/ /\ CanFail(E)
          /\ faults' = faults + 1
          /\ SetRun(j, [run[j] EXCEPT !.pc = "fail_status",
                                      !.error = Some("browser quit failed")])
    /\ UNCHANGED <<jobs, resp, attrib, col, world, call>>

\* main.py:251
discovery_set_completed(j) ==
    /\ InRun(j, "discovery", "set_completed")
    /\ SetJob(j, "status", "completed")
    /\ SetRun(j, [run[j] EXCEPT !.pc = "set_result"])
    /\ UNCHANGED <<sessions, resp, faults, attrib, col, world, call>>

\* a run whose result write raises after the status was set to completed
discovery_set_result_raises(j) ==
    /\ InRun(j, "discovery", "set_result")
    /\ SetRun(j, [run[j] EXCEPT !.pc = "fail_status",
                                !.error = Some("result not serializable")])
    /\ UNCHANGED <<jobs, sessions, resp, faults, attrib, col, world, call>>

\* main.py:252
discovery_set_result(j) ==
    /\ InRun(j, "discovery", "set_result")
    /\ SetJob(j, "result", Some(run[j].final_profiles))
    /\ SetRun(j, [run[j] EXCEPT !.pc = "set_progress"])
    /\ UNCHANGED <<sessions, resp, faults, attrib, col, world, call>>

\* main.py:253
discovery_set_progress(j) ==
    /\ InRun(j, "discovery", "set_progress")
    /\ SetJob(j, "progress", <<"Completed! Discovered", Len(run[j].final_profiles)>>)
    /\ SetRun(j, [run[j] EXCEPT !.pc = "stamp_completed"])
    /\ UNCHANGED <<sessions, resp, faults, attrib, col, world, call>>

\* main.py:254
discovery_stamp_completed(j) ==
    /\ InRun(j, "discovery", "stamp_completed")
    /\ SetJob(j, "completed_at", Timestamp)
    /\ SetRun(j, [run[j] EXCEPT !.pc = "done"])
    /\ UNCHANGED <<sessions, resp, faults, attrib, col, world, call>>

\* a failure path that stores the error while the status is still running
discovery_fail_error_first(j) ==
    /\ InRun(j, "discovery", "fail_status")
    /\ SetJob(j, "error", run[j].error)
    /\ SetRun(j, [run[j] EXCEPT !.pc = "fail_error"])
    /\ UNCHANGED <<sessions, resp, faults, attrib, col, world, call>>

\* main.py:258
discovery_fail_status(j) ==
    /\ InRun(j, "discovery", "fail_status")
    /\ SetJob(j, "status", "failed")
    /\ SetRun(j, [run[j] EXCEPT !.pc = "fail_error"])
    /\ UNCHANGED <<sessions, resp, faults, attrib, col, world, call>>

\* main.py:259
discovery_fail_error(j) ==
    /\ InRun(j, "discovery", "fail_error")
    /\ SetJob(j, "error", run[j].error)
    /\ SetRun(j, [run[j] EXCEPT !.pc = "fail_stamp"])
    /\ UNCHANGED <<sessions, resp, faults, attrib, col, world, call>>

\* main.py:260
discovery_fail_stamp(j) ==
    /\ InRun(j, "discovery", "fail_stamp")
    /\ SetJob(j, "completed_at", Timestamp)
    /\ SetRun(j, [run[j] EXCEPT !.pc = "done"])
    /\ UNCHANGED <<sessions, resp, faults, attrib, col, world, call>>

\* one step of the background run of discovery job j
run_discovery_job(j, E) ==
    \/ discovery_set_running(j)
    \/ discovery_stamp_start(j)
    \/ discovery_new_scraper(j, E)
    \/ discovery_phase1_seed(j, E)
    \/ discovery_phase2_seed(j, E)
    \/ discovery_following_iteration(j, E)
    \/ discovery_stub(j, E)
    \/ discovery_close(j, E)
    \/ discovery_set_completed(j)
    \/ discovery_set_result(j)
    \/ discovery_set_progress(j)
    \/ discovery_stamp_completed(j)
    \/ discovery_fail_status(j)
    \/ discovery_fail_error(j)
    \/ discovery_fail_stamp(j)

-----------------------------------------------------------------------------
(* jobs/tweet_sync.py: the background tweet-sync run *)

\* tweet_sync.py:9-17: scrape_tweets(username, count=20) raises TypeError for
\* the unknown keyword, the except clause returns []
sync_influencer_tweets(username) ==
    IF scrape_tweets_accepts("count") THEN TimelineOf(username) ELSE << >>

\* tweet_sync.py:23: the browser starts, or the exception leaves the task
sync_new_scraper(j, E) ==
    /\ InRun(j, "sync", "queued")
    /\ \/ /\ sessions' = [sessions EXCEPT ![j].created = @ + 1]
          /\ SetRun(j, [run[j] EXCEPT !.pc = IF run[j].usernames = << >>
                                            THEN "closing" ELSE "accounts"])
          /\ UNCHANGED faults
       \/ /\ CanFail(E)
          /\ faults' = faults + 1
          /\ SetRun(j, [run[j] EXCEPT !.pc = "done", !.raised = TRUE])
          /\ UNCHANGED sessions
    /\ UNCHANGED <<jobs, resp, attrib, col, world, call>>

\* tweet_sync.py:27-45: one iteration of the loop over the accounts
sync_account(j, E) ==
    /\ InRun(j, "sync", "accounts")
    /\ LET r == run[j]
           tweets == sync_influencer_tweets(r.usernames[r.idx])
           next == IF r.idx = Len(r.usernames)
                   THEN [r EXCEPT !.pc = "closing"]
                   ELSE [r EXCEPT !.idx = r.idx + 1]
       IN IF tweets # << >>
          THEN \* requests.post answers 200, or not, or raises
               \E saved \in BOOLEAN :
                  SetRun(j, [next EXCEPT
                                !.payloads = Append(@, r.usernames[r.idx]),
                                !.total_tweets =
                                    IF saved THEN @ + Len(tweets) ELSE @])
          ELSE SetRun(j, next)
    /\ UNCHANGED <<jobs, sessions, resp, faults, attrib, col, world, call>>

\* tweet_sync.py:47-49
sync_close(j, E) ==
    /\ InRun(j, "sync", "closing")
    /\ sessions' = [sessions EXCEPT ![j].closed = @ + 1]
    /\ \/ /\ SetRun(j, [run[j] EXCEPT !.pc = "done"])
          /\ UNCHANGED faults
       \/ /\ CanFail(E)
          /\ faults' = faults + 1
          /\ SetRun(j, [run[j] EXCEPT !.pc = "done", !.raised = TRUE])
    /\ UNCHANGED <<jobs, resp, attrib, col, world, call>>

\* one step of the background run of tweet-sync job j
run_tweet_sync_job(j, E) ==
    \/ sync_new_scraper(j, E)
    \/ sync_account(j, E)
    \/ sync_close(j, E)

-----------------------------------------------------------------------------
(* main.py: POST /tweets, the handler that runs the post collector on its  *)
(* own browser session (owner 0 of sessions).                              *)

\* what page_source may hold: up to MaxPage rendered tweet elements
TweetElements ==
    [text : TweetTexts, likes : {0, 1}, raises : {FALSE}]
        \cup {[text |-> 0, likes |-> 0, raises |-> TRUE]}

Pages == UNION {[1..n -> TweetElements] : n \in 0..MaxPage}

\* main.py:83-86 and core.py:314-326: the session starts and scrape_tweets
\* loads the page, or driver.get raises and scrape_tweets returns []
get_tweets_start(E) ==
    /\ col.pc = "idle"
    /\ sessions' = [sessions EXCEPT ![0].created = @ + 1]
    /\ \E username \in SeedNames, max_tweets \in 0..MaxTweets :
         \/ /\ \E height \in Heights :
                 LET c == tweets_start(username, max_tweets, height)
                 IN col' = IF tweets_continues(c) THEN c
                           ELSE [c EXCEPT !.pc = "return"]
            /\ UNCHANGED faults
         \/ /\ CanFail(E)
            /\ faults' = faults + 1
            /\ col' = tweets_except(tweets_start(username, max_tweets, 0))
    /\ UNCHANGED <<jobs, run, resp, attrib, world, call>>

\* core.py:328-358: one iteration of the while loop of scrape_tweets, and
\* its return when the loop ends or the browser raises
get_tweets_iteration(E) ==
    /\ col.pc = "loop"
    /\ \E elements \in Pages :
         LET merged == tweets_merge(col, elements)
         IN \/ /\ \E new_height \in Heights :
                    LET c == tweets_scroll(merged, new_height)
                    IN col' = IF tweets_continues(c) THEN c
                              ELSE [c EXCEPT !.pc = "return"]
               /\ UNCHANGED faults
            \/ /\ CanFail(E)
               /\ faults' = faults + 1
               /\ \E c \in {col, merged} : col' = tweets_except(c)
    /\ UNCHANGED <<jobs, run, sessions, resp, attrib, world, call>>

\* main.py:87-93: the handler answers with the tweets and the finally clause
\* closes the session; when close raises the request fails
get_tweets_finish(E) ==
    /\ col.pc = "return"
    /\ sessions' = [sessions EXCEPT ![0].closed = @ + 1]
    /\ col' = [col EXCEPT !.pc = "closed"]
    /\ \/ /\ resp' = [code |-> 200, handler |-> "tweets", body |-> col.tweets]
          /\ UNCHANGED faults
       \/ /\ CanFail(E)
          /\ faults' = faults + 1
          /\ resp' = [code |-> 500, handler |-> "tweets"]
    /\ UNCHANGED <<jobs, run, attrib, world, call>>

-----------------------------------------------------------------------------
(* scraper/utils.py: parse_count.                                          *)
(* A str is the sequence of its characters, each a string of length one.   *)
(* A Python int, which has no width, is the sequence of its decimal        *)
(* digits, most significant first, <<0>> for zero.  A float is a record:   *)
(* [kind |-> "finite", bits, exp] stands for bits * 2^exp, where bits is   *)
(* the binary64 significand, 53 bits with the most significant first, or   *)
(* << >> for zero; [kind |-> "inf"] and [kind |-> "nan"] are the two       *)
(* special values.  The counts of the model have no sign and no exponent   *)
(* part, and up to nine digits before the point.                           *)

ascii_lowercase ==
    <<"a", "b", "c", "d", "e", "f", "g", "h", "i", "j", "k", "l", "m",
      "n", "o", "p", "q", "r", "s", "t", "u", "v", "w", "x", "y", "z">>

ascii_uppercase ==
    <<"A", "B", "C", "D", "E", "F", "G", "H", "I", "J", "K", "L", "M",
      "N", "O", "P", "Q", "R", "S", "T", "U", "V", "W", "X", "Y", "Z">>

digits == <<"0", "1", "2", "3", "4", "5", "6", "7", "8", "9">>

whitespace == {" "}

\* the significand of a binary64 float holds 53 bits
mant_dig == 53

\* str.upper()
upper(s) ==
    [i \in 1..Len(s) |->
        IF \E k \in DOMAIN ascii_lowercase : ascii_lowercase[k] = s[i]
        THEN ascii_uppercase[CHOOSE k \in DOMAIN ascii_lowercase :
                                 ascii_lowercase[k] = s[i]]
        ELSE s[i]]

\* s[:-1]
without_last(s) == SubSeq(s, 1, Len(s) - 1)

RECURSIVE lstrip_whitespace(_)
lstrip_whitespace(s) ==
    IF s # << >> /\ Head(s) \in whitespace
    THEN lstrip_whitespace(Tail(s)) ELSE s

RECURSIVE rstrip_whitespace(_)
rstrip_whitespace(s) ==
    IF s # << >> /\ s[Len(s)] \in whitespace
    THEN rstrip_whitespace(without_last(s)) ELSE s

\* str.strip()
strip_whitespace(s) == rstrip_whitespace(lstrip_whitespace(s))

\* str.endswith(c) for a character c
endswith(s, c) == s # << >> /\ s[Len(s)] = c

\* str.replace(old, '') for a character old
replace(s, old) == SelectSeq(s, LAMBDA c : c # old)

is_digit(c) == \E d \in DOMAIN digits : digits[d] = c

digit_value(c) == (CHOOSE d \in DOMAIN digits : digits[d] = c) - 1

\* the number a sequence of digit characters writes
RECURSIVE int_value(_)
int_value(ds) ==
    IF ds = << >> THEN 0
    ELSE int_value(without_last(ds)) * 10 + digit_value(ds[Len(ds)])

RECURSIVE power_of_ten(_)
power_of_ten(n) == IF n = 0 THEN 1 ELSE 10 * power_of_ten(n - 1)

\* v in n bits, most significant first
bits_of(v, n) == [i \in 1..n |-> (v \div 2^(n - i)) % 2]

zeros(n) == [i \in 1..n |-> 0]

\* bits without the zeros it starts with
significant(bits) ==
    LET ones == {i \in 1..Len(bits) : bits[i] = 1}
    IN IF ones = {} THEN << >>
       ELSE SubSeq(bits, CHOOSE i \in ones : \A k \in ones : i <= k, Len(bits))

\* the bits of n < 2^31, most significant first, none for 0
binary(n) == significant(bits_of(n, 31))

\* the bytes of the number bits writes, most significant first
to_bytes(bits) ==
    LET padded == zeros((8 - (Len(bits) % 8)) % 8) \o bits
    IN [k \in 1..(Len(padded) \div 8) |->
           128 * padded[8 * k - 7] + 64 * padded[8 * k - 6]
             + 32 * padded[8 * k - 5] + 16 * padded[8 * k - 4]
             + 8 * padded[8 * k - 3] + 4 * padded[8 * k - 2]
             + 2 * padded[8 * k - 1] + padded[8 * k]]

\* the bits of the number bytes writes, eight to the byte
from_bytes(bytes) ==
    [i \in 1..(8 * Len(bytes)) |->
        bits_of(bytes[(i + 7) \div 8], 8)[((i - 1) % 8) + 1]]

\* ds * factor + carry on the digits of a number in a base, most
\* significant first, worked from the last digit
times(ds, base, factor, carry) ==
    LET numeral[n \in Nat] ==
            IF n = 0 THEN << >> ELSE Append(numeral[n \div base], n % base)
        loop[st \in [ds : Seq(0..(base - 1)), carry : Nat,
                     acc : Seq(0..(base - 1))]] ==
            IF st.ds = << >> THEN numeral[st.carry] \o st.acc
            ELSE LET t == st.ds[Len(st.ds)] * factor + st.carry
                 IN loop[[ds |-> without_last(st.ds), carry |-> t \div base,
                          acc |-> <<t % base>> \o st.acc]]
    IN loop[[ds |-> ds, carry |-> carry, acc |-> << >>]]

\* bits + 1: the last 0 becomes 1 and the 1s after it become 0
increment(bits) ==
    LET low == {i \in 1..Len(bits) : bits[i] = 0}
        last == CHOOSE i \in low : \A k \in low : k <= i
    IN IF low = {} THEN <<1>> \o zeros(Len(bits))
       ELSE [i \in 1..Len(bits) |->
                IF i < last THEN bits[i] ELSE IF i = last THEN 1 ELSE 0]

\* the binary64 float nearest to bits * 2^exp (plus a nonzero part below
\* the last bit when sticky), ties to the even significand; bits starts
\* with a 1
round_half_even(bits, exp, sticky) ==
    IF Len(bits) <= mant_dig
    THEN [kind |-> "finite", bits |-> bits \o zeros(mant_dig - Len(bits)),
          exp |-> exp - (mant_dig - Len(bits))]
    ELSE LET keep == SubSeq(bits, 1, mant_dig)
             dropped == Len(bits) - mant_dig
             below == sticky \/ \E i \in mant_dig + 2 .. Len(bits) : bits[i] = 1
             up == bits[mant_dig + 1] = 1 /\ (below \/ keep[mant_dig] = 1)
             more == increment(keep)
         IN IF ~up
            THEN [kind |-> "finite", bits |-> keep, exp |-> exp + dropped]
            ELSE IF Len(more) = mant_dig
                 THEN [kind |-> "finite", bits |-> more, exp |-> exp + dropped]
                 ELSE [kind |-> "finite", bits |-> SubSeq(more, 1, mant_dig),
                       exp |-> exp + dropped + 1]

\* the first 8 * n bits after the point of the binary expansion of r/den,
\* r < den, written a byte at a time, and the remainder they leave
binary_fraction(r, den, n) ==
    LET loop[st \in [r : Nat, bytes : Seq(0..255)]] ==
            IF Len(st.bytes) = n THEN st
            ELSE loop[[r |-> (256 * st.r) % den,
                       bytes |-> Append(st.bytes, (256 * st.r) \div den)]]
    IN loop[[r |-> r, bytes |-> << >>]]

\* the float nearest to the decimal whole.frac: the binary expansion is
\* written out beyond the bits the significand holds, however many zeros
\* it starts with, and rounded
float_of_decimal(whole, frac) ==
    LET i == int_value(whole)
        r == int_value(frac)
        den == power_of_ten(Len(frac))
        n == (mant_dig + 1 + Len(binary(den))) \div 8 + 1
        x == binary_fraction(r, den, n)
    IN IF i = 0 /\ r = 0
       THEN [kind |-> "finite", bits |-> << >>, exp |-> 0]
       ELSE round_half_even(significant(binary(i) \o from_bytes(x.bytes)),
                            0 - 8 * n, x.r # 0)

\* float(s): the float a str spells, or a ValueError
float(s) ==
    LET t == upper(strip_whitespace(s))
        points == {i \in 1..Len(t) : t[i] = "."}
        point == IF points = {} THEN Len(t) + 1 ELSE CHOOSE i \in points : TRUE
    IN IF t \in {<<"I", "N", "F">>, <<"I", "N", "F", "I", "N", "I", "T", "Y">>}
       THEN [kind |-> "inf"]
       ELSE IF t = <<"N", "A", "N">>
       THEN [kind |-> "nan"]
       ELSE IF /\ \A i \in 1..Len(t) : is_digit(t[i]) \/ t[i] = "."
               /\ Cardinality(points) <= 1
               /\ \E i \in 1..Len(t) : is_digit(t[i])
       THEN float_of_decimal(SubSeq(t, 1, point - 1),
                             SubSeq(t, point + 1, Len(t)))
       ELSE [kind |-> "ValueError"]

\* bytes * multiplier, for a multiplier that is below 2^22 or a multiple
\* of 1000 below 2^31
RECURSIVE product(_, _)
product(bytes, multiplier) ==
    IF multiplier < 2^22 THEN times(bytes, 256, multiplier, 0)
    ELSE product(times(bytes, 256, 1000, 0), multiplier \div 1000)

\* x * multiplier: the product is worked out in full and rounded
float_mul(x, multiplier) ==
    IF x.kind # "finite" \/ x.bits = << >> THEN x
    ELSE round_half_even(
             significant(from_bytes(product(to_bytes(x.bits), multiplier))),
             x.exp, FALSE)

\* the decimal digits of the number bytes writes, none for 0
decimal(bytes) ==
    LET loop[st \in [bytes : Seq(0..255), acc : Seq(0..9)]] ==
            IF st.bytes = << >> THEN st.acc
            ELSE loop[[bytes |-> Tail(st.bytes),
                       acc |-> times(st.acc, 10, 256, Head(st.bytes))]]
    IN loop[[bytes |-> bytes, acc |-> << >>]]

\* int(x) for a finite x: the whole part
int(x) ==
    LET whole == IF x.exp >= 0 THEN x.bits \o zeros(x.exp)
                 ELSE SubSeq(x.bits, 1, Len(x.bits) + x.exp)
    IN IF decimal(to_bytes(whole)) = << >> THEN <<0>>
       ELSE decimal(to_bytes(whole))

Returns(v) == [kind |-> "return", value |-> v]

Raises(e) == [kind |-> "raise", exception |-> e]

\* utils.py:4-25: what parse_count(count_str) returns or raises.  int()
\* raises ValueError for nan, which line 24 catches, and OverflowError for
\* inf, which nothing catches.
parse_count(count_str) ==
    IF count_str = << >> THEN Returns(<<0>>)
    ELSE LET s == upper(strip_whitespace(count_str))
             multiplier == IF endswith(s, "K") THEN 1000
                           ELSE IF endswith(s, "M") THEN 1000000
                           ELSE IF endswith(s, "B") THEN 1000000000
                           ELSE 1
             body == IF multiplier = 1 THEN s ELSE without_last(s)
             x == float(replace(body, ","))
         IN IF x.kind = "ValueError" THEN Returns(<<0>>)
            ELSE LET y == float_mul(x, multiplier)
                 IN IF y.kind = "nan" THEN Returns(<<0>>)
                    ELSE IF y.kind = "inf" THEN Raises("OverflowError")
                    ELSE Returns(int(y))

\* one call of parse_count, from its entry to its return or its raise
parse_count_call ==
    /\ call.pc = "called"
    /\ call' = [pc |-> "over", count_str |-> call.count_str,
                outcome |-> parse_count(call.count_str)]
    /\ UNCHANGED <<jobs, run, sessions, resp, faults, attrib, col, world>>

-----------------------------------------------------------------------------
(* main.py: GET /profile/{username}, the handler that fetches one profile  *)
(* on its own browser session (owner 0 of sessions).  Its locals are        *)
(* [pc, username, absent, unexpected, answer]: absent tells that            *)
(* scrape_profile returned None, unexpected that the browser raised in the  *)
(* handler itself, answer is what the try statement has settled on.         *)

\* the classes an HTTPException is an instance of
HTTPException_bases == {"HTTPException", "Exception", "BaseException"}

\* main.py:75: whether the clause "except Exception" catches the
\* HTTPException that line 72 raises inside the try block
get_profile_catches == "Exception" \in HTTPException_bases

\* main.py:66: the session starts, or its start raises before the try
\* statement and the request fails with no session to close
get_profile_start(E) ==
    /\ col.pc = "idle"
    /\ \E username \in SeedNames :
         \/ /\ sessions' = [sessions EXCEPT ![0].created = @ + 1]
            /\ col' = [pc |-> "scrape", username |-> username,
                       absent |-> FALSE, unexpected |-> FALSE,
                       answer |-> [code |-> 0, handler |-> "none"]]
            /\ UNCHANGED <<faults, resp>>
         \/ /\ CanFail(E)
            /\ faults' = faults + 1
            /\ col' = [pc |-> "closed", username |-> username,
                       absent |-> FALSE, unexpected |-> TRUE,
                       answer |-> [code |-> 500, handler |-> "profile"]]
            /\ resp' = [code |-> 500, handler |-> "profile"]
            /\ UNCHANGED sessions
    /\ UNCHANGED <<jobs, run, attrib, world, call>>

\* main.py:67-77: the try statement.  The HTTPException of line 72 is
\* raised inside the try block, where the except clause of line 75 meets it
get_profile_scrape(E) ==
    /\ col.pc = "scrape"
    /\ \E profile \in scrape_profile(E, col.username) :
         IF profile = None
         THEN /\ faults' = faults + 1
              /\ col' = [col EXCEPT
                           !.pc = "finally", !.absent = TRUE,
                           !.answer = [code |-> IF get_profile_catches
                                                THEN 500 ELSE 404,
                                       handler |-> "profile"]]
         ELSE /\ col' = [col EXCEPT
                           !.pc = "finally",
                           !.answer = [code |-> 200, handler |-> "profile",
                                       body |-> profile[1]]]
              /\ UNCHANGED faults
    /\ UNCHANGED <<jobs, run, sessions, resp, attrib, world, call>>

\* main.py:78-79: the finally clause closes the session and the answer goes
\* out; when close raises, its exception replaces the answer
get_profile_finish(E) ==
    /\ col.pc = "finally"
    /\ sessions' = [sessions EXCEPT ![0].closed = @ + 1]
    /\ \/ /\ col' = [col EXCEPT !.pc = "closed"]
          /\ resp' = col.answer
          /\ UNCHANGED faults
       \/ /\ CanFail(E)
          /\ faults' = faults + 1
          /\ col' = [col EXCEPT !.pc = "closed", !.unexpected = TRUE]
          /\ resp' = [code |-> 500, handler |-> "profile"]
    /\ UNCHANGED <<jobs, run, attrib, world, call>>

-----------------------------------------------------------------------------
(* scraper/core.py: scrape_following called on its own, for any max_count  *)
(* and any rendered cells.  A cell is a record [href, raises]: href is the  *)
(* href of its first link or None when it has none, raises tells whether   *)
(* building its Profile raises.                                            *)

Handles == 1..MaxHandle

\* what page_source may hold: up to MaxPage rendered cells, among them
\* cells without a link, cells whose parsing raises, and two spellings of
\* the link to handle 1
UserCells ==
    {UserCell(h) : h \in Handles}
        \cup {[href |-> Some(<<0, 1, 0>>), raises |-> FALSE],
              [href |-> None, raises |-> FALSE],
              [href |-> Some(<<0, 1>>), raises |-> TRUE]}

CellPages == UNION {[1..n -> UserCells] : n \in 0..MaxPage}

\* core.py:360-372: scrape_following loads the page and reads the height,
\* or driver.get raises and it returns []
scrape_following_enter(E) ==
    /\ call.pc = "none"
    /\ \E username \in SeedNames, max_count \in 0..MaxCount :
         \/ /\ \E height \in Heights :
                 LET c == following_start(height)
                 IN call' = [pc |-> IF following_continues(c, max_count)
                                    THEN "loop" ELSE "returned",
                             username |-> username, max_count |-> max_count,
                             c |-> c]
            /\ UNCHANGED faults
         \/ /\ CanFail(E)
            /\ faults' = faults + 1
            /\ call' = [pc |-> "returned", username |-> username,
                        max_count |-> max_count, c |-> following_start(0)]
    /\ UNCHANGED <<jobs, run, sessions, resp, attrib, col, world>>

\* core.py:374-439: one iteration of the while loop of scrape_following,
\* and its return when the loop ends or the browser raises
scrape_following_iteration(E) ==
    /\ call.pc = "loop"
    /\ \E cells \in CellPages :
         LET merged == following_merge(call.c, cells, call.max_count)
         IN \/ /\ \E new_height \in Heights :
                    LET c == following_scroll(merged, new_height)
                    IN call' = [call EXCEPT
                                  !.c = c,
                                  !.pc = IF following_continues(c, call.max_count)
                                         THEN "loop" ELSE "returned"]
               /\ UNCHANGED faults
            \/ /\ CanFail(E)
               /\ faults' = faults + 1
               /\ \E c \in {call.c, merged} :
                    call' = [call EXCEPT !.c = c, !.pc = "returned"]
    /\ UNCHANGED <<jobs, run, sessions, resp, attrib, col, world>>

-----------------------------------------------------------------------------
(* scraper/core.py: the tweet count of _extract_profile_data.  The page is *)
(* what the two regular expressions find in it: count_match is group 1 of  *)
(* the search in the header text, or None; candidates are the strings of   *)
(* the page that hold a number before "posts" or "tweets", in document     *)
(* order, each a record [short, count_str] of whether it is shorter than   *)
(* 20 characters and of its first run of [\d,.KMB] characters, which a     *)
(* string with a digit always has.                                          *)

\* core.py:151-157: the first short candidate sets the count
first_candidate(candidates) ==
    LET short == {i \in DOMAIN candidates : candidates[i].short}
    IN IF short = {} THEN None
       ELSE Some(candidates[CHOOSE i \in short : \A k \in short : i <= k])

\* core.py:60 and 122-158: profile_data['tweets_count'], and whether the
\* strings of the page were searched; an exception of parse_count leaves
\* the function by line 178 with the count it had
extract_profile_data(count_match, candidates) ==
    LET found == IF count_match = None THEN Returns(<<0>>)
                 ELSE parse_count(count_match[1])
        c == first_candidate(candidates)
        again == parse_count(c[1].count_str)
    IN IF found.kind = "raise"
       THEN [tweets_count |-> <<0>>, searched |-> FALSE]
       ELSE IF found.value # <<0>>
       THEN [tweets_count |-> found.value, searched |-> FALSE]
       ELSE IF c = None \/ again.kind = "raise"
       THEN [tweets_count |-> <<0>>, searched |-> TRUE]
       ELSE [tweets_count |-> again.value, searched |-> TRUE]

\* one call of _extract_profile_data on a parsed page
extract_profile_data_call ==
    /\ call.pc = "parsed"
    /\ call' = [pc |-> "extracted", count_match |-> call.count_match,
                candidates |-> call.candidates,
                profile_data |-> extract_profile_data(call.count_match,
                                                      call.candidates)]
    /\ UNCHANGED <<jobs, run, sessions, resp, faults, attrib, col, world>>

-----------------------------------------------------------------------------
(* Specifications *)

Idle == [pc |-> "idle"]

\* no call of parse_count is under way
NoCall == [pc |-> "none"]

InitOf(worlds, calls) ==
    /\ jobs = << >>
    /\ run = [j \in JobIds |-> NoRun]
    /\ sessions = [o \in 0..MaxJobs |-> [created |-> 0, closed |-> 0]]
    /\ resp = [code |-> 0, handler |-> "none"]
    /\ faults = 0
    /\ attrib = [j \in JobIds |-> << >>]
    /\ col = Idle
    /\ world \in worlds
    /\ call \in calls

InitIn(worlds) == InitOf(worlds, {NoCall})

Init == InitIn({1})

\* the initial states of a run that reads follower counts
InitWorlds == InitIn(1..MaxFollowers)

\* requests arrive while uuid4 has ids left to hand out
Arrivals(E) == FreeIds(E) # {}

\* the username lists of short submissions, the empty one included
ShortLists == UNION {[1..n -> SeedNames] : n \in 0..MaxSeeds}

\* the username lists of long submissions: the seeds n, n-1, .., 1, for an n
\* short of the global cap and an n beyond it; the listing of the first
\* seed holds no other seed
LongLists ==
    {[i \in 1..n |-> n + 1 - i] : n \in {target_total - 3, target_total + 1}}

(* One discovery job over short username lists. *)

RunEnv == [jobIds |-> {1}, lists |-> ShortLists, sinks |-> {FALSE},
           maxFaults |-> MaxFaults, listLen |-> ListLen, chunk |-> PageChunk]

RunNext ==
    \/ Arrivals(RunEnv) /\ start_discovery_job(RunEnv)
    \/ run_discovery_job(1, RunEnv)

RunSpec == InitWorlds /\ [][RunNext]_vars

(* One discovery job over long username lists; a listing page renders all *)
(* its cells in the first load.                                            *)

CapEnv == [jobIds |-> {1}, lists |-> LongLists, sinks |-> {FALSE},
           maxFaults |-> LongFaults, listLen |-> ListLen, chunk |-> ListLen]

CapNext ==
    \/ Arrivals(CapEnv) /\ start_discovery_job(CapEnv)
    \/ run_discovery_job(1, CapEnv)

CapSpec == InitWorlds /\ [][CapNext]_vars

(* The job store: concurrent discovery and tweet-sync jobs over one-name   *)
(* lists; a listing holds one cell.                                        *)

StoreEnv == [jobIds |-> JobIds, lists |-> {<< >>, <<1>>}, sinks |-> {FALSE},
             maxFaults |-> StoreFaults, listLen |-> 1, chunk |-> 1]

Next ==
    \/ Arrivals(StoreEnv) /\ start_discovery_job(StoreEnv)
    \/ Arrivals(StoreEnv) /\ start_tweet_sync_job(StoreEnv)
    \/ \E j \in JobIds : run_discovery_job(j, StoreEnv)
    \/ \E j \in JobIds : run_tweet_sync_job(j, StoreEnv)

Spec == Init /\ [][Next]_vars


(* One POST /tweets request over arbitrary page contents and heights. *)

TweetsEnv == [jobIds |-> {}, lists |-> {}, sinks |-> {FALSE},
              maxFaults |-> StoreFaults, listLen |-> 0, chunk |-> 0]

TweetsNext ==
    \/ get_tweets_start(TweetsEnv)
    \/ get_tweets_iteration(TweetsEnv)
    \/ get_tweets_finish(TweetsEnv)

TweetsSpec == Init /\ [][TweetsNext]_vars

(* One job, discovery or tweet-sync, with status polls at every step; the *)
(* polls ask for every job id, the ids never handed out included.         *)

PollEnv == [jobIds |-> {1}, lists |-> {<< >>, <<1>>}, sinks |-> {FALSE},
            maxFaults |-> StoreFaults, listLen |-> 1, chunk |-> 1]

PollNext ==
    \/ Arrivals(PollEnv) /\ start_discovery_job(PollEnv)
    \/ Arrivals(PollEnv) /\ start_tweet_sync_job(PollEnv)
    \/ get_job_status
    \/ run_discovery_job(1, PollEnv)
    \/ run_tweet_sync_job(1, PollEnv)

PollSpec == Init /\ [][PollNext]_vars

(* One discovery job over short lists, its background run scheduled        *)
(* fairly: a task handed to add_task runs, and each of its steps returns.  *)
(* A listing holds fewer cells than following_max_count, in two loads.     *)

LiveEnv == [jobIds |-> {1}, lists |-> ShortLists, sinks |-> {FALSE},
            maxFaults |-> StoreFaults, listLen |-> PageChunk + 2,
            chunk |-> PageChunk]

LiveNext ==
    \/ Arrivals(LiveEnv) /\ start_discovery_job(LiveEnv)
    \/ run_discovery_job(1, LiveEnv)

LiveSpec ==
    Init /\ [][LiveNext]_vars /\ WF_vars(run_discovery_job(1, LiveEnv))

(* Either one POST /tweets request or one discovery job over short lists, *)
(* whichever comes first to the idle service: the post collector and the   *)
(* connection collector each run on a browser session and on locals of     *)
(* their own.                                                             *)

CollectEnv == [jobIds |-> {1}, lists |-> ShortLists, sinks |-> {FALSE},
               maxFaults |-> StoreFaults, listLen |-> PageChunk + 2,
               chunk |-> PageChunk]

CollectNext ==
    \/ col.pc = "idle" /\ Arrivals(CollectEnv) /\ start_discovery_job(CollectEnv)
    \/ run_discovery_job(1, CollectEnv)
    \/ jobs = << >> /\ get_tweets_start(CollectEnv)
    \/ get_tweets_iteration(CollectEnv)
    \/ get_tweets_finish(CollectEnv)

CollectSpec == Init /\ [][CollectNext]_vars

(* One job, discovery or tweet-sync, over short lists, submitted with or   *)
(* without a sink; a listing holds one cell.                               *)

SinkEnv == [jobIds |-> {1}, lists |-> ShortLists, sinks |-> BOOLEAN,
            maxFaults |-> MaxFaults, listLen |-> 1, chunk |-> 1]

SinkNext ==
    \/ Arrivals(SinkEnv) /\ start_discovery_job(SinkEnv)
    \/ Arrivals(SinkEnv) /\ start_tweet_sync_job(SinkEnv)
    \/ run_discovery_job(1, SinkEnv)
    \/ run_tweet_sync_job(1, SinkEnv)

SinkSpec == InitWorlds /\ [][SinkNext]_vars

(* One discovery job for the seeds alice (1) and bob (2); the listing of   *)
(* alice holds bob and four other accounts, rendered in one load.          *)

ScenarioSeeds == <<1, 2>>

ScenarioEnv == [jobIds |-> {1}, lists |-> {ScenarioSeeds}, sinks |-> {FALSE},
                maxFaults |-> MaxFaults + 1, listLen |-> PageChunk,
                chunk |-> PageChunk]

ScenarioNext ==
    \/ Arrivals(ScenarioEnv) /\ start_discovery_job(ScenarioEnv)
    \/ run_discovery_job(1, ScenarioEnv)

ScenarioSpec == InitWorlds /\ [][ScenarioNext]_vars

(* One call of parse_count, on a text the page shows where a count is     *)
(* expected: a numeral, plain or with thousands separators, with or        *)
(* without a suffix, or any short text.                                    *)

Texts(chars, lo, hi) == UNION {[1..n -> chars] : n \in lo..hi}

Suffixes == {<< >>, <<"K">>, <<"k">>, <<"M">>, <<"m">>, <<"B">>, <<"b">>}

NumeralDigits == {"0", "1", "2"}

Numerals ==
    {whole \o frac \o suffix :
        whole \in Texts(NumeralDigits, 1, MaxWhole),
        frac \in {<< >>} \cup {<<".">> \o f : f \in Texts(NumeralDigits, 1, MaxFrac)},
        suffix \in Suffixes}

Grouped ==
    {<<lead, ",">> \o group \o suffix :
        lead \in NumeralDigits \ {"0"},
        group \in Texts(NumeralDigits, 3, 3),
        suffix \in Suffixes}

WordChars == {"i", "n", "f", "a", "K", "1", ".", ",", " "}

Words == Texts(WordChars, 0, MaxWord)

Examples ==
    {<<"1", ".", "2", "K">>, <<"2", ",", "5", "0", "0">>, <<"3", "M">>,
     <<"4", "B">>, << >>, <<"a", "b", "c">>}

CountStrings == Examples \cup Numerals \cup Grouped \cup Words

CountInit ==
    InitOf({1}, {[pc |-> "called", count_str |-> s] : s \in CountStrings})

CountNext == parse_count_call

CountSpec == CountInit /\ [][CountNext]_vars

(* One POST /tweets request, one GET /profile request or one call of      *)
(* scrape_following, for any target and any page contents and heights.    *)

CollectorsEnv == [jobIds |-> {}, lists |-> {}, sinks |-> {FALSE},
                  maxFaults |-> StoreFaults, listLen |-> 0, chunk |-> 0]

CollectorsNext ==
    \/ call.pc = "none" /\ get_tweets_start(CollectorsEnv)
    \/ get_tweets_iteration(CollectorsEnv)
    \/ get_tweets_finish(CollectorsEnv)
    \/ col.pc = "idle" /\ scrape_following_enter(CollectorsEnv)
    \/ scrape_following_iteration(CollectorsEnv)
    \/ call.pc = "none" /\ get_profile_start(CollectorsEnv)
    \/ get_profile_scrape(CollectorsEnv)
    \/ get_profile_finish(CollectorsEnv)

CollectorsSpec == Init /\ [][CollectorsNext]_vars

(* One call of _extract_profile_data for each bounded page. *)

\* runs of [\d,.KMB] characters the expressions may capture
MatchedCounts ==
    {<<"0">>, <<"7">>, <<"1", "K">>, <<"K">>, <<"0", ".", "0">>}

Candidates == [short : BOOLEAN, count_str : MatchedCounts]

ExtractInit ==
    InitOf({1}, {[pc |-> "parsed", count_match |-> m, candidates |-> cs] :
                   m \in {None} \cup {Some(s) : s \in MatchedCounts},
                   cs \in UNION {[1..n -> Candidates] : n \in 0..MaxCandidates}})

ExtractNext == extract_profile_data_call

ExtractSpec == ExtractInit /\ [][ExtractNext]_vars

-----------------------------------------------------------------------------
(* Properties *)

StatusOf(j) == IF j \in DOMAIN jobs THEN jobs[j]["status"] ELSE "absent"

Terminal == {"completed", "failed"}

LifecycleSteps ==
    {<<"absent", "pending">>, <<"pending", "running">>,
     <<"running", "completed">>, <<"running", "failed">>}

\* C1: the stored status of a discovery job changes only along
\* pending -> running -> completed or pending -> running -> failed: every
\* step leaves it alone or takes one of the four steps of the lifecycle, so
\* a terminal status never changes again.
C1_Lifecycle ==
    [][\A j \in JobIds :
          run'[j].kind = "discovery" =>
              \/ StatusOf(j)' = StatusOf(j)
              \/ <<StatusOf(j), StatusOf(j)'>> \in LifecycleSteps]_vars

\* two discovery jobs have run to their ends, one completed, one failed
C1_Witness ==
    \E j1, j2 \in DOMAIN jobs :
        /\ run[j1].kind = "discovery" /\ run[j1].pc = "done"
        /\ run[j2].kind = "discovery" /\ run[j2].pc = "done"
        /\ StatusOf(j1) = "completed" /\ StatusOf(j2) = "failed"


\* C2: under fair scheduling of its background run, with browser operations
\* that return and listing pages whose height stops changing, every
\* accepted discovery job reaches a terminal status, and keeps that one.
C2_Terminates ==
    /\ \A j \in JobIds : (j \in DOMAIN jobs) ~> (StatusOf(j) \in Terminal)
    /\ [][\A j \in JobIds :
             StatusOf(j) \in Terminal => StatusOf(j)' = StatusOf(j)]_vars

\* a job completed with a profile found through a listing; no browser
\* operation failed, so the collection of the listing ran until the height
\* stayed unchanged max_scroll_attempts times
C2_Witness ==
    \E j \in DOMAIN jobs :
        /\ StatusOf(j) = "completed" /\ run[j].pc = "done"
        /\ faults = 0
        /\ \E i \in DOMAIN run[j].final_profiles :
              \A k \in DOMAIN run[j].usernames :
                  run[j].final_profiles[i].username # run[j].usernames[k]

\* C3 (as claimed): the record of a tweet-sync job leaves pending when its
\* background run starts and is completed or failed once the run is over.
C3_SyncLifecycle ==
    \A j \in DOMAIN jobs :
        run[j].kind = "sync" =>
            /\ run[j].pc # "queued" => StatusOf(j) # "pending"
            /\ run[j].pc = "done" => StatusOf(j) \in Terminal

C5_EmptyRejected ==
    /\ [][(resp' # resp /\ resp'.code = 400) =>
             (jobs' = jobs /\ run' = run /\ sessions' = sessions)]_vars
    /\ [](\A j \in JobIds :
             /\ j \in DOMAIN jobs => jobs[j]["usernames"] # << >>
             /\ run[j].kind # "none" => run[j].usernames # << >>)

\* an empty submission was rejected while a job was in the store
C5_Witness ==
    /\ resp.code = 400
    /\ DOMAIN jobs # {}
    /\ \A j \in JobIds : sessions[j].created = 0

Max(a, b) == IF a >= b THEN a ELSE b

Range(f) == {f[i] : i \in DOMAIN f}

Discovery(j) == j \in DOMAIN jobs /\ run[j].kind = "discovery"

\* C6: the result stored for a completed discovery run holds at most
\* target_total (25) profiles, whatever the number of seeds and of listing
\* entries visited.
C6_ResultCap ==
    \A j \in JobIds :
        (Discovery(j) /\ jobs[j]["result"] # None) =>
            Len(jobs[j]["result"][1]) <= target_total

\* a run that discovered more than 25 profiles has completed with 25
C6_Witness ==
    \E j \in JobIds :
        /\ Discovery(j) /\ StatusOf(j) = "completed"
        /\ jobs[j]["result"] # None
        /\ Len(run[j].discovered_profiles) > target_total
        /\ Len(jobs[j]["result"][1]) = target_total

\* C7 (as claimed): at every point of every discovery run the list of
\* discovered profiles has at most target_total (25) entries.
C7_DiscoveredCapped ==
    \A j \in JobIds :
        Discovery(j) => Len(run[j].discovered_profiles) <= target_total

\* C7 (amended): the list of discovered profiles has at most as many entries
\* as the larger of target_total and the number of distinct seeds, and no
\* step of the expansion phase adds to a list that holds target_total
\* entries.
C7_DiscoveredBound ==
    /\ [](\A j \in JobIds :
             Discovery(j) =>
                 Len(run[j].discovered_profiles)
                     <= Max(target_total, Cardinality(Range(run[j].usernames))))
    /\ [][\A j \in JobIds :
             (/\ Discovery(j) /\ run[j].pc = "stubs"
              /\ Len(run'[j].discovered_profiles) > Len(run[j].discovered_profiles))
                 => Len(run[j].discovered_profiles) < target_total]_vars

\* the expansion phase stands at a listing entry not seen before with 25
\* profiles discovered
C7_Witness ==
    \E j \in JobIds :
        /\ Discovery(j) /\ run[j].pc = "stubs"
        /\ Len(run[j].discovered_profiles) = target_total
        /\ run[j].following[run[j].f_idx].username \notin run[j].seen_usernames

\* C8 (as claimed): the number of profiles the expansion phase added from
\* the listing of one seed username never exceeds target_per_seed (4), also
\* for a list that names a username more than once.
C8_PerSeedQuota ==
    \A j \in JobIds :
        Discovery(j) =>
            \A username \in DOMAIN attrib[j] :
                attrib[j][username] <= target_per_seed

\* C9: the result stored for a completed discovery run is ordered by
\* follower count, non-increasing from each entry to the next.
C9_Ranked ==
    \A j \in JobIds :
        (Discovery(j) /\ jobs[j]["result"] # None) =>
            LET result == jobs[j]["result"][1]
            IN \A i \in 1..(Len(result) - 1) :
                   result[i].followers_count >= result[i + 1].followers_count

\* a completed run whose result of three profiles or more is in another
\* order than the order of discovery
C9_Witness ==
    \E j \in JobIds :
        /\ Discovery(j) /\ StatusOf(j) = "completed"
        /\ jobs[j]["result"] # None
        /\ Len(jobs[j]["result"][1]) >= 3
        /\ jobs[j]["result"][1] # run[j].discovered_profiles
        /\ \E i \in 1..(Len(jobs[j]["result"][1]) - 1) :
              jobs[j]["result"][1][i].followers_count
                  > jobs[j]["result"][1][i + 1].followers_count

NoSharedText(tweets) ==
    \A a, b \in 1..Len(tweets) : a # b => tweets[a].text # tweets[b].text

\* C10: no two posts of a collection share their text, at any point of the
\* run of the collector and in the list the request returns.
C10_DistinctTexts ==
    /\ col.pc # "idle" => NoSharedText(col.tweets)
    /\ (resp.handler = "tweets" /\ resp.code = 200) => NoSharedText(resp.body)

\* a request returned two posts after an element was dropped for its text
C10_Witness ==
    /\ resp.handler = "tweets" /\ resp.code = 200
    /\ Len(resp.body) >= 2
    /\ col.collided

\* the counter c' follows from the counter c by one scroll whose height
\* read is the last_height of c'
NoGrowthStep(c, d) ==
    d.scroll_attempts =
        IF d.last_height = c.last_height THEN c.scroll_attempts + 1 ELSE 0

\* C11: in both collectors a scroll resets the no-growth counter to 0 when
\* the height read differs from the last one and adds 1 to it when it is
\* equal; the loop goes on only below max_scroll_attempts (10), and a
\* collector that ends short of its target without a browser error ends
\* with the counter at 10 and returns what it collected as a normal result.
C11_NoGrowth ==
    [][/\ (col.pc = "loop" /\ faults' = faults) =>
              /\ NoGrowthStep(col, col')
              /\ col'.pc = "loop" => col'.scroll_attempts < max_scroll_attempts
              /\ (col'.pc = "return" /\ Len(col'.tweets) < col'.max_tweets) =>
                     col'.scroll_attempts = max_scroll_attempts
       /\ (col.pc = "return" /\ faults' = faults) =>
              (resp'.code = 200 /\ resp'.body = col.tweets)
       /\ (InRun(1, "discovery", "following") /\ faults' = faults) =>
              IF run'[1].pc = "following"
              THEN /\ NoGrowthStep(run[1].c, run'[1].c)
                   /\ run'[1].c.scroll_attempts < max_scroll_attempts
              ELSE /\ run'[1].pc \in {"stubs", "phase2"}
                   /\ Len(run'[1].following) < following_max_count =>
                          run[1].c.scroll_attempts = max_scroll_attempts - 1
      ]_vars

\* the post collector has returned fewer posts than asked for, and not
\* none, after 10 scrolls in a row that left the height unchanged
C11_Witness ==
    /\ col.pc = "return" /\ faults = 0
    /\ col.scroll_attempts = max_scroll_attempts
    /\ Len(col.tweets) > 0 /\ Len(col.tweets) < col.max_tweets

\* C12: a job run creates at most one browser session, and when it has
\* created one it closes it once and has closed it when the run is over, on
\* each path; only the steps of a job's own run touch its session.
C12_OneSession ==
    /\ [](\A j \in JobIds :
             /\ sessions[j].created <= 1
             /\ sessions[j].closed <= sessions[j].created
             /\ run[j].pc = "done" => sessions[j].closed = sessions[j].created
             /\ (run[j].kind = "discovery"
                   /\ run[j].pc \in {"phase1", "phase2", "following", "stubs",
                                     "closing"})
                    => (sessions[j].created = 1 /\ sessions[j].closed = 0)
             /\ (run[j].kind = "sync" /\ run[j].pc \in {"accounts", "closing"})
                    => (sessions[j].created = 1 /\ sessions[j].closed = 0))
    /\ [][\A j \in JobIds :
             sessions'[j] # sessions[j] => (run'[j] # run[j] /\ run[j] # NoRun)]_vars

\* a discovery run and a tweet-sync run are over, a fetch failed in one of
\* them, and each has created one session and closed it
C12_Witness ==
    \E j1, j2 \in JobIds :
        /\ run[j1].kind = "discovery" /\ run[j1].pc = "done"
        /\ StatusOf(j1) = "completed"
        /\ run[j2].kind = "sync" /\ run[j2].pc = "done" /\ ~run[j2].raised
        /\ faults > 0
        /\ \A j \in {j1, j2} : sessions[j] = [created |-> 1, closed |-> 1]

\* C13: a discovery run is left by an exception only when the browser
\* start or the browser close raises; a run that is over without one is
\* completed with its result stored, however many fetches failed, and a
\* failed job stores the text of the exception that left the run.
C13_ItemFailures ==
    \A j \in JobIds :
        Discovery(j) =>
            /\ run[j].error # None =>
                   \/ sessions[j].created = 0
                   \/ /\ sessions[j].closed = 1
                      /\ run[j].error = Some("browser quit failed")
            /\ StatusOf(j) = "failed" =>
                   (run[j].error # None /\ jobs[j]["result"] = None)
            /\ run[j].pc = "done" =>
                   IF run[j].error = None
                   THEN /\ StatusOf(j) = "completed"
                        /\ jobs[j]["result"] = Some(run[j].final_profiles)
                        /\ jobs[j]["error"] = None
                   ELSE /\ StatusOf(j) = "failed"
                        /\ jobs[j]["error"] = run[j].error

\* a job submitted with a sink is completed with an empty result: the
\* fetch of its seed and the fetch of the seed's listing both failed
C13_Witness ==
    \E j \in JobIds :
        /\ Discovery(j) /\ run[j].pc = "done" /\ run[j].sink
        /\ StatusOf(j) = "completed"
        /\ jobs[j]["result"] = Some(<< >>)
        /\ faults >= 2

\* the run of job j is over without an exception; alice was resolved and
\* four entries of her listing were promoted, no fetch resolved bob and
\* nothing was promoted from his listing
ScenarioA(j) ==
    /\ Discovery(j) /\ run[j].usernames = ScenarioSeeds
    /\ run[j].pc = "done" /\ run[j].error = None
    /\ 1 \in run[j].seen_usernames /\ 2 \notin run[j].seen_usernames
    /\ attrib[j][1] = target_per_seed /\ attrib[j][2] = 0

\* C14 (as claimed): in scenario A the stored result has length 6.
C14_ScenarioLength6 ==
    \A j \in JobIds : ScenarioA(j) => Len(jobs[j]["result"][1]) = 6

\* C14 (amended): in scenario A the job is completed, bob is not in the
\* result, and the result has length 5: alice and the four connections
\* promoted from her listing.
C14_ScenarioA ==
    \A j \in JobIds :
        ScenarioA(j) =>
            /\ StatusOf(j) = "completed"
            /\ jobs[j]["result"] # None
            /\ Len(jobs[j]["result"][1]) = 1 + target_per_seed
            /\ \A i \in DOMAIN jobs[j]["result"][1] :
                   jobs[j]["result"][1][i].username # 2
            /\ \E i \in DOMAIN jobs[j]["result"][1] :
                   jobs[j]["result"][1][i].username = 1

\* scenario A has happened: the seed fetch of bob, his promotion from the
\* listing of alice and the fetch of his own listing all failed
C14_Witness ==
    \E j \in JobIds : ScenarioA(j) /\ faults = MaxFaults + 1

\* the step of job j is a promotion fetch that fails
PromotionFails(j) ==
    /\ Discovery(j) /\ run[j].pc = "stubs" /\ faults' = faults + 1

\* C15: a promotion fetch that fails adds nothing to the discovered list
\* nor to the count of its seed and lets no exception leave the run; the
\* run goes on with the next entry of the same listing when there is one,
\* with the next seed otherwise.  A run that is over without an exception
\* and has fetched at least one profile is completed with a non-empty
\* result.
C15_StubFailure ==
    /\ [][\A j \in JobIds :
             PromotionFails(j) =>
                 /\ run'[j].discovered_profiles = run[j].discovered_profiles
                 /\ run'[j].seen_usernames = run[j].seen_usernames
                 /\ attrib' = attrib
                 /\ run'[j].error = None
                 /\ StatusOf(j)' = "running"
                 /\ IF run[j].f_idx < Len(run[j].following)
                    THEN /\ run'[j].pc = "stubs"
                         /\ run'[j].idx = run[j].idx
                         /\ run'[j].following = run[j].following
                         /\ run'[j].f_idx = run[j].f_idx + 1
                         /\ run'[j].count = run[j].count
                    ELSE /\ run'[j].pc = "phase2"
                         /\ run'[j].idx = run[j].idx + 1]_vars
    /\ [](\A j \in JobIds :
             (/\ Discovery(j) /\ run[j].pc = "done" /\ run[j].error = None
              /\ run[j].discovered_profiles # << >>)
                 => (/\ StatusOf(j) = "completed"
                     /\ jobs[j]["result"] # None
                     /\ jobs[j]["result"][1] # << >>))

\* the run for the seed 1 is completed: the promotion of the first entry
\* of the listing failed and the second entry of the same listing is in
\* the result
C15_Witness ==
    \E j \in JobIds :
        /\ Discovery(j) /\ run[j].usernames = <<1>>
        /\ run[j].pc = "done" /\ StatusOf(j) = "completed"
        /\ 1 \in run[j].seen_usernames
        /\ FollowingOf(1, 1) \notin run[j].seen_usernames
        /\ FollowingOf(1, 2) \in run[j].seen_usernames
        /\ \E i \in DOMAIN jobs[j]["result"][1] :
               jobs[j]["result"][1][i].username = FollowingOf(1, 2)

\* the seeds resolved so far, while no listing entry has been promoted
ResolvedSeeds(j) ==
    IF run[j].pc = "phase1" \/ (run[j].pc = "phase2" /\ run[j].idx = 1)
    THEN run[j].seen_usernames ELSE {}

\* C16 (as claimed): with a sink, a post collection has run for every seed
\* whose profile fetch succeeded, and the posts of every such seed that has
\* posts were handed to the sink in one payload.
C16_SinkHandoff ==
    \A j \in JobIds :
        (Discovery(j) /\ run[j].sink) =>
            \A username \in ResolvedSeeds(j) :
                /\ username \in run[j].collected
                /\ TimelineOf(username) # << >> =>
                       Cardinality({k \in DOMAIN run[j].payloads :
                                        run[j].payloads[k] = username}) = 1

\* C17 (as claimed): when a tweet-sync run has gone through its list, every
\* account of the list that has posts had one payload posted to the sink.
C17_SyncPosts ==
    \A j \in JobIds :
        (run[j].kind = "sync" /\ run[j].pc = "closing") =>
            \A i \in DOMAIN run[j].usernames :
                TimelineOf(run[j].usernames[i]) # << >> =>
                    \E k \in DOMAIN run[j].payloads :
                        run[j].payloads[k] = run[j].usernames[i]

DecimalDigits == {digits[d] : d \in DOMAIN digits}

SuffixLetters == {"K", "k", "M", "m", "B", "b"}

\* the power of ten a suffix letter stands for
SuffixPower(c) ==
    CASE c \in {"K", "k"} -> 3
      [] c \in {"M", "m"} -> 6
      [] c \in {"B", "b"} -> 9

HasSuffix(s) == s # << >> /\ s[Len(s)] \in SuffixLetters

\* a text without its suffix letter, when it has one
Unsuffixed(s) == IF HasSuffix(s) THEN SubSeq(s, 1, Len(s) - 1) ELSE s

PowerOf(s) == IF HasSuffix(s) THEN SuffixPower(s[Len(s)]) ELSE 0

PointOf(b) ==
    IF \E i \in 1..Len(b) : b[i] = "."
    THEN CHOOSE i \in 1..Len(b) : b[i] = "." /\ \A k \in 1..(i - 1) : b[k] # "."
    ELSE Len(b) + 1

WholeOf(b) == SubSeq(b, 1, PointOf(b) - 1)

FracOf(b) == SubSeq(b, PointOf(b) + 1, Len(b))

IsDigits(t) == t # << >> /\ \A i \in 1..Len(t) : t[i] \in DecimalDigits

\* digits in groups of three from the right, a separator between the groups
IsGrouped(w) ==
    /\ w # << >> /\ w[1] # ","
    /\ \A i \in 1..Len(w) :
          IF (Len(w) - i) % 4 = 3 THEN w[i] = "," ELSE w[i] \in DecimalDigits

\* a decimal numeral with optional thousands separators and an optional
\* suffix letter
IsNumeral(s) ==
    LET b == Unsuffixed(s)
    IN /\ IsDigits(WholeOf(b)) \/ IsGrouped(WholeOf(b))
       /\ PointOf(b) <= Len(b) => IsDigits(FracOf(b))

\* the digits of a number without its leading zeros
Normal(v) ==
    IF \A i \in 1..Len(v) : v[i] = 0 THEN <<0>>
    ELSE SubSeq(v, CHOOSE i \in 1..Len(v) :
                       v[i] # 0 /\ \A k \in 1..(i - 1) : v[k] = 0,
                Len(v))

\* the whole part of a numeral times the power of ten of its suffix, in
\* decimal digits: the point moves right by that power
NumeralTimes(s) ==
    LET b == Unsuffixed(s)
        whole == SelectSeq(WholeOf(b), LAMBDA c : c # ",")
        frac == FracOf(b) \o [i \in 1..PowerOf(s) |-> "0"]
        moved == whole \o SubSeq(frac, 1, PowerOf(s))
    IN Normal([i \in 1..Len(moved) |-> digit_value(moved[i])])

\* the counts the six texts of the claim stand for
ClaimedCounts ==
    {<< <<"1", ".", "2", "K">>, <<1, 2, 0, 0>> >>,
     << <<"2", ",", "5", "0", "0">>, <<2, 5, 0, 0>> >>,
     << <<"3", "M">>, <<3, 0, 0, 0, 0, 0, 0>> >>,
     << <<"4", "B">>, <<4, 0, 0, 0, 0, 0, 0, 0, 0, 0>> >>,
     << << >>, <<0>> >>,
     << <<"a", "b", "c">>, <<0>> >>}

\* C18 (as claimed): parse_count returns 1200 for "1.2K", 2500 for "2,500",
\* 3000000 for "3M", 4000000000 for "4B" and 0 for "" and "abc", and for
\* every decimal numeral with optional thousands separators and an
\* optional suffix K, M or B in either case it returns the numeral times
\* 1, 10^3, 10^6 or 10^9 (the whole part of the product).
C18_ParseCount ==
    call.pc = "over" =>
        /\ \A c \in ClaimedCounts :
              call.count_str = c[1] =>
                  call.outcome = [kind |-> "return", value |-> c[2]]
        /\ IsNumeral(call.count_str) =>
              call.outcome = [kind |-> "return",
                              value |-> NumeralTimes(call.count_str)]

\* a text that spells a count once its blanks, its separators and one
\* suffix letter are taken away
Parsable(s) ==
    LET b == Unsuffixed(SelectSeq(s, LAMBDA c : c \notin {",", " "}))
    IN /\ \A i \in 1..Len(b) : b[i] \in DecimalDigits \cup {"."}
       /\ Cardinality({i \in 1..Len(b) : b[i] = "."}) <= 1
       /\ \E i \in 1..Len(b) : b[i] \in DecimalDigits

\* C19 (as claimed): parse_count returns for every text and raises for
\* none, and it returns 0 for every text that spells no count.
C19_Total ==
    call.pc = "over" =>
        /\ call.outcome.kind = "return"
        /\ ~Parsable(call.count_str) => call.outcome.value = <<0>>

-----------------------------------------------------------------------------
(* The order of the fetches of a discovery run. *)

\* the positions of a run at which it fetches for the expansion
Expanding == {"phase2", "following", "stubs"}

\* the step of run j appends the full profile of username, or nothing
Fetches(j, username) ==
    \/ run'[j].discovered_profiles = run[j].discovered_profiles
    \/ /\ Len(run'[j].discovered_profiles) = Len(run[j].discovered_profiles) + 1
       /\ SubSeq(run'[j].discovered_profiles, 1, Len(run[j].discovered_profiles))
            = run[j].discovered_profiles
       /\ run'[j].discovered_profiles[Len(run'[j].discovered_profiles)].username
            = username

\* C21: in a discovery run no seed is resolved once the expansion has
\* begun; both loops take the seeds one by one in the order of the
\* submitted list; and the stubs of a listing are promoted one by one in
\* the order of the listing.
C21_FetchOrder ==
    [][\A j \in DOMAIN run :
         (run[j].kind = "discovery" /\ run'[j] # run[j]) =>
            LET r == run[j]
                q == run'[j]
            IN /\ q.pc = "phase1" => r.pc \in {"new_scraper", "phase1"}
               /\ q.usernames = r.usernames
               /\ r.pc = "phase1" =>
                     /\ Fetches(j, r.usernames[r.idx])
                     /\ \/ q.pc = "phase1" /\ q.idx = r.idx + 1
                        \/ /\ q.pc = "phase2" /\ q.idx = 1
                           /\ r.idx = Len(r.usernames)
               /\ (r.pc \in Expanding /\ q.pc \in Expanding) =>
                     /\ q.idx \in {r.idx, r.idx + 1}
                     /\ q.idx = r.idx + 1 => q.pc = "phase2"
               /\ r.pc \in {"phase2", "following"} =>
                     q.discovered_profiles = r.discovered_profiles
               /\ r.pc = "stubs" =>
                     /\ Fetches(j, r.following[r.f_idx].username)
                     /\ q.pc = "stubs" =>
                           /\ q.following = r.following
                           /\ q.idx = r.idx
                           /\ q.f_idx = r.f_idx + 1
       ]_vars

\* a finished run over the seeds 2 and 1, both resolved in that order, with
\* stubs promoted from both listings
C21_Witness ==
    \E j \in DOMAIN run :
       /\ run[j].kind = "discovery" /\ run[j].pc = "done"
       /\ run[j].usernames = <<2, 1>>
       /\ Len(run[j].discovered_profiles) > 4
       /\ run[j].discovered_profiles[1].username = 2
       /\ run[j].discovered_profiles[2].username = 1
       /\ run[j].discovered_profiles[3].username = FollowingOf(2, 1)
       /\ attrib[j][1] > 0 /\ attrib[j][2] > 0

-----------------------------------------------------------------------------
(* What a background run writes to the job store. *)

\* the keys of a record the background run assigns (main.py:123-124,
\* 142, 194, 208, 251-254, 258-260)
RunKeys == {"status", "progress", "result", "error", "started_at",
            "completed_at"}

\* the record of job j is as it was, but for the keys a run assigns
SameButRunKeys(j) ==
    /\ DOMAIN jobs[j] \subseteq DOMAIN jobs'[j]
    /\ DOMAIN jobs'[j] \ DOMAIN jobs[j] \subseteq RunKeys
    /\ \A key \in DOMAIN jobs[j] \ RunKeys : jobs'[j][key] = jobs[j][key]

\* C22: with jobs running side by side, a step that changes the store is
\* either a submission, which adds one record and touches no other, or a
\* step of one job's run, which assigns only status, progress, result,
\* error, started_at or completed_at of that job's own record; no record
\* is removed, and the id, usernames and created_at of a record stay as
\* they were created.
C22_OwnRecord ==
    [][/\ DOMAIN jobs \subseteq DOMAIN jobs'
       /\ \A j \in DOMAIN jobs :
             /\ SameButRunKeys(j)
             /\ jobs'[j]["id"] = j
             /\ jobs'[j] # jobs[j] =>
                   /\ run[j].kind # "none"
                   /\ run'[j] # run[j]
                   /\ DOMAIN jobs' = DOMAIN jobs
                   /\ \A k \in DOMAIN jobs \ {j} :
                         jobs'[k] = jobs[k] /\ run'[k] = run[k]
      ]_vars

\* two discovery jobs side by side: the run of one is over and has stored
\* its result, the run of the other is under way
C22_Witness ==
    \E j, k \in DOMAIN jobs :
       /\ j # k
       /\ run[j].kind = "discovery" /\ run[k].kind = "discovery"
       /\ run[j].pc = "done" /\ jobs[j]["status"] = "completed"
       /\ Get(jobs[j], "result") # None
       /\ jobs[k]["status"] = "running" /\ Get(jobs[k], "result") = None

-----------------------------------------------------------------------------
(* The collectors at their target. *)

\* the step leaves the height and the no-growth counter of the locals c as
\* they were: every scroll is followed by a height read that changes one of
\* the two
NotScrolled(c, d) ==
    d.last_height = c.last_height /\ d.scroll_attempts = c.scroll_attempts

Distinct(profiles) ==
    \A i, k \in DOMAIN profiles :
        profiles[i].username = profiles[k].username => i = k

\* C24: for every target from 0 up and whatever the pages hold, each
\* collector holds at most target items at the head of each iteration and
\* at every return; with target 0 the loop body is never entered, so
\* nothing is scrolled and the list returned is empty; and the stubs of
\* the connection collector carry pairwise different handles.
C24_AtMostTarget ==
    /\ col.pc \in {"loop", "return"} =>
          /\ Len(col.tweets) <= col.max_tweets
          /\ col.pc = "loop" => Len(col.tweets) < col.max_tweets
          /\ col.max_tweets = 0 => col.scroll_attempts = 0
    /\ call.pc \in {"loop", "returned"} =>
          /\ Len(call.c.profiles) <= call.max_count
          /\ call.pc = "loop" => Len(call.c.profiles) < call.max_count
          /\ call.max_count = 0 => call.c.scroll_attempts = 0
          /\ Distinct(call.c.profiles)
          /\ call.c.seen_usernames =
                {call.c.profiles[i].username : i \in DOMAIN call.c.profiles}

\* a call of the connection collector that has returned with its target
\* of stubs, the link to handle 1 among them
C24_Witness ==
    /\ call.pc = "returned"
    /\ call.max_count = MaxCount
    /\ Len(call.c.profiles) = MaxCount
    /\ 1 \in call.c.seen_usernames

-----------------------------------------------------------------------------
(* The tweet count of a profile page. *)

\* C28 (as claimed): whenever the search in the header text matches, the
\* tweet count is the value of that match, 0 included, and the strings of
\* the page are not searched.
C28_FirstMatchWins ==
    (call.pc = "extracted" /\ call.count_match # None) =>
        /\ call.profile_data.tweets_count = parse_count(call.count_match[1]).value
        /\ ~call.profile_data.searched

-----------------------------------------------------------------------------
(* The result of a discovery run against the list it discovered. *)

\* the place of the profile p in the list of discovered profiles, whose
\* usernames differ
PlaceIn(profiles, p) ==
    CHOOSE k \in DOMAIN profiles : profiles[k].username = p.username

\* p comes before q in the ranking: more followers, or as many and
\* discovered earlier
RanksBefore(profiles, p, q) ==
    \/ p.followers_count > q.followers_count
    \/ /\ p.followers_count = q.followers_count
       /\ PlaceIn(profiles, p) < PlaceIn(profiles, q)

\* C25: the result of a completed discovery run holds discovered profiles
\* only, as many as were discovered up to result_limit (25); its entries
\* are in the order of their follower counts, largest first, and entries
\* with equal counts are in the order of their discovery; and every
\* discovered profile left out ranks after every entry of the result.
C25_StableTop ==
    \A j \in JobIds :
        (Discovery(j) /\ jobs[j]["result"] # None) =>
            LET result == jobs[j]["result"][1]
                discovered == run[j].discovered_profiles
            IN /\ Len(result) = IF Len(discovered) < result_limit
                                THEN Len(discovered) ELSE result_limit
               /\ Range(result) \subseteq Range(discovered)
               /\ \A i, k \in DOMAIN result :
                     i < k => RanksBefore(discovered, result[i], result[k])
               /\ \A p \in Range(discovered) \ Range(result) :
                     \A i \in DOMAIN result :
                         RanksBefore(discovered, result[i], p)

\* a completed run that discovered more than 25 profiles: its result holds
\* two neighbours with equal follower counts and leaves out a profile that
\* has as many followers as its last entry
C25_Witness ==
    \E j \in JobIds :
        /\ Discovery(j) /\ jobs[j]["result"] # None
        /\ Len(run[j].discovered_profiles) > result_limit
        /\ LET result == jobs[j]["result"][1]
           IN /\ \E i \in 1..(Len(result) - 1) :
                    result[i].followers_count = result[i + 1].followers_count
              /\ \E p \in Range(run[j].discovered_profiles) \ Range(result) :
                    p.followers_count = result[Len(result)].followers_count

\* C26: at every point of a discovery run seen_usernames is the set of the
\* usernames of discovered_profiles and no two discovered profiles carry
\* the same username (usernames are compared as they are written); so a
\* seed named twice in the submitted list is fetched with success at most
\* once, and no two profiles of the result carry the same username.
C26_SeenIsDiscovered ==
    \A j \in JobIds :
        Discovery(j) =>
            /\ run[j].seen_usernames =
                  {run[j].discovered_profiles[i].username :
                       i \in DOMAIN run[j].discovered_profiles}
            /\ Distinct(run[j].discovered_profiles)
            /\ jobs[j]["result"] # None => Distinct(jobs[j]["result"][1])

\* a completed run over a list that names one seed twice: the seed was
\* resolved, stubs of its listing were promoted, and the result holds them
C26_Witness ==
    \E j \in JobIds :
        /\ Discovery(j) /\ jobs[j]["result"] # None
        /\ Len(run[j].usernames) = 2
        /\ run[j].usernames[1] = run[j].usernames[2]
        /\ run[j].usernames[1] \in run[j].seen_usernames
        /\ Len(jobs[j]["result"][1]) > 2

-----------------------------------------------------------------------------
(* The limits of the expansion phase. *)

\* the step of run j fetches a profile: the fetch adds a profile or fails
FetchedProfile(j) ==
    \/ Len(run'[j].discovered_profiles) > Len(run[j].discovered_profiles)
    \/ faults' > faults

\* C27: in the expansion phase the stub loop of a listing is never at a
\* stub with target_per_seed (4) promotions counted for the listing, and
\* the promotion that brings the count to 4 ends the loop over the
\* listing; a promotion fetch is made only with the count below 4 and
\* fewer than target_total (25) profiles discovered; and a listing fetch
\* is made only with fewer than 25 profiles discovered.
C27_NoWorkPastLimit ==
    /\ [](\A j \in JobIds :
             (Discovery(j) /\ run[j].pc = "stubs") =>
                 run[j].count < target_per_seed)
    /\ [][\A j \in JobIds :
             (Discovery(j) /\ run'[j] # run[j]) =>
                 /\ (run[j].pc = "stubs" /\ FetchedProfile(j)) =>
                       /\ run[j].count < target_per_seed
                       /\ Len(run[j].discovered_profiles) < target_total
                 /\ (/\ run[j].pc = "stubs"
                     /\ run[j].count = target_per_seed - 1
                     /\ Len(run'[j].discovered_profiles)
                          > Len(run[j].discovered_profiles)) =>
                       /\ run'[j].pc = "phase2"
                       /\ run'[j].idx = run[j].idx + 1
                 /\ (/\ run[j].pc = "phase2"
                     /\ run'[j].pc = "following" \/ faults' > faults) =>
                       Len(run[j].discovered_profiles) < target_total
                 /\ run[j].pc = "following" =>
                       Len(run[j].discovered_profiles) < target_total
          ]_vars

\* the expansion stands at the head of its loop with seeds left to visit:
\* the listing of the first seed gave 4 promotions with stubs to spare, and
\* they brought the discovered profiles to 25
C27_Witness ==
    \E j \in JobIds :
        /\ Discovery(j) /\ run[j].pc = "phase2"
        /\ run[j].idx = 2 /\ run[j].idx <= Len(run[j].usernames)
        /\ Len(run[j].discovered_profiles) = target_total
        /\ attrib[j][run[j].usernames[1]] = target_per_seed

-----------------------------------------------------------------------------
(* Elements the collectors fail on. *)

\* the elements of a page whose parsing does not raise
Parsed(elements) == SelectSeq(elements, LAMBDA el : ~el.raises)

\* the locals c and d of a collector agree but for the record of a
\* skipped element
SameButSkipped(c, d) == [c EXCEPT !.skipped = FALSE] = [d EXCEPT !.skipped = FALSE]

\* C29: at every iteration of either collector and for every page, the
\* merge of the page is the merge of the page without the elements whose
\* parsing raises: the elements before and after them are merged as if
\* they were not there; the merge leaves the no-growth counter and the
\* height as they were; and the loop goes on to its scroll.
C29_ElementSkipped ==
    /\ col.pc = "loop" =>
          \A elements \in Pages :
              LET merged == tweets_merge(col, elements)
              IN /\ merged = tweets_merge(col, Parsed(elements))
                 /\ merged.pc = "loop"
                 /\ NotScrolled(col, merged)
    /\ call.pc = "loop" =>
          \A cells \in CellPages :
              LET merged == following_merge(call.c, cells, call.max_count)
              IN /\ SameButSkipped(merged,
                        following_merge(call.c, Parsed(cells), call.max_count))
                 /\ NotScrolled(call.c, merged)

\* the connection collector is at the head of its loop with a stub
\* collected, after a scroll that showed no growth and a cell it was
\* unable to parse
C29_Witness ==
    /\ call.pc = "loop" /\ call.c.skipped
    /\ Len(call.c.profiles) >= 1
    /\ call.c.scroll_attempts >= 1

-----------------------------------------------------------------------------
(* What a status poll reports beside the status. *)

\* C30 (as claimed): a poll that reports completed reports the result list
\* and the completion time with it, and a poll that reports running,
\* completed or failed reports the start time with it, however the poll
\* falls between the steps of the background run.
C30_PollComplete ==
    (resp.handler = "jobs" /\ resp.code = 200) =>
        /\ resp.status = "completed" =>
              resp.result # None /\ resp.completed_at # None
        /\ resp.status \in {"running", "completed", "failed"} =>
              resp.started_at # None

-----------------------------------------------------------------------------
(* The answers of GET /profile/{username}. *)

\* C32 (as claimed): the request for one profile is answered 404 when
\* scrape_profile returned no profile, 500 only when something raised
\* unexpectedly, and in both cases the session the handler started is
\* closed once.
C32_NotFound ==
    (resp.handler = "profile" /\ col.pc = "closed") =>
        /\ (col.absent /\ ~col.unexpected) => resp.code = 404
        /\ resp.code = 500 => col.unexpected
        /\ resp.code \in {404, 500} =>
              /\ sessions[0].created <= 1
              /\ sessions[0].closed = sessions[0].created

-----------------------------------------------------------------------------
(* Browser failures inside the collectors and the profile fetch. *)

\* the list after holds the list before, entry for entry, at its start
Extends(after, before) ==
    /\ Len(after) >= Len(before)
    /\ SubSeq(after, 1, Len(before)) = before

\* C31: a browser failure in the post collector or in the connection
\* collector, at the load of the page or at any iteration, makes the
\* collector return the items it holds, none when the page did not load;
\* a browser failure in the profile fetch makes it return None to the
\* handler, which goes on in its own code; no collector is ever left by
\* an exception.
C31_NothingRaised ==
    /\ [](col.pc # "raised" /\ call.pc # "raised")
    /\ [][faults' > faults =>
             /\ (col.pc = "idle" /\ "tweets" \in DOMAIN col') =>
                   col'.pc = "return" /\ col'.tweets = << >>
             /\ col.pc = "loop" =>
                   col'.pc = "return" /\ Extends(col'.tweets, col.tweets)
             /\ call.pc = "none" /\ call' # call =>
                   call'.pc = "returned" /\ call'.c.profiles = << >>
             /\ call.pc = "loop" =>
                   /\ call'.pc = "returned"
                   /\ Extends(call'.c.profiles, call.c.profiles)
             /\ col.pc = "scrape" =>
                   col'.pc = "finally" /\ col'.absent /\ ~col'.unexpected
          ]_vars

\* a POST /tweets request was answered with the posts its collector held
\* when the browser failed
C31_Witness ==
    /\ resp.handler = "tweets" /\ resp.code = 200
    /\ faults = 1
    /\ Len(resp.body) >= 1

=============================================================================
